---- MODULE Spec2Model ----
(***************************************************************************)
(* Model of the rule-based code transformer (lib/transformer.ts, the       *)
(* enhanced version at src/unnamed/part_001 lines 899-1875).               *)
(*                                                                         *)
(* Texts are TLA+ strings; TLC evaluates Len, SubSeq and \o on them, so a  *)
(* text is the sequence of its characters and every regular expression of  *)
(* the source is modelled by an operator that walks the characters the way *)
(* the JavaScript engine does (leftmost match, greedy or lazy quantifiers, *)
(* '.' not matching a line terminator, '^' and '$' as the flags say).      *)
(***************************************************************************)
EXTENDS Integers, Sequences, FiniteSets, TLC

VARIABLES pc, op, code, sourceLanguage, targetLanguage, translatedCode, outcome, result,
          ruleEngine, earlier,
          response, streamed, index, events, controller, timer, received, lateCalls,
          files, activeFileId, created

\* the state of a caller of the transformer's exported operations
callVars == <<pc, op, code, sourceLanguage, targetLanguage, translatedCode, outcome, result,
              ruleEngine, earlier>>

\* the state of the streaming endpoint (src/app/api/translate/route.ts)
streamVars == <<response, streamed, index, events, controller, timer, received, lateCalls>>

\* the state of MultiFileTranslator (part_004)
fileVars == <<files, activeFileId, created>>

vars == <<pc, op, code, sourceLanguage, targetLanguage, translatedCode, outcome, result,
          ruleEngine, earlier, streamVars, fileVars>>

(***************************************************************************)
(* Characters and the character classes of the regular expressions.        *)
(***************************************************************************)
LowerLetters == "abcdefghijklmnopqrstuvwxyz"
UpperLetters == "ABCDEFGHIJKLMNOPQRSTUVWXYZ"
DigitChars == "0123456789"

CharsOf(s) == {SubSeq(s, i, i) : i \in 1..Len(s)}

Lower == CharsOf(LowerLetters)
Upper == CharsOf(UpperLetters)
Digit == CharsOf(DigitChars)
\* \w
Word == Lower \cup Upper \cup Digit \cup {"_"}
\* \s (the white space and line terminators a text of the model can hold)
Space == {" ", "\t", "\n", "\r", "\f"}
\* the characters '.' does not match, after which '^' and before which '$' match under /m
LineTerm == {"\n", "\r"}

\* s[i] of JavaScript (1-based here); "" stands for undefined past either end
Ch(s, i) == IF i >= 1 /\ i <= Len(s) THEN SubSeq(s, i, i) ELSE ""

\* s.substring(i-1, j), empty when j < i
Sub(s, i, j) == IF j < i \/ i > Len(s) THEN ""
                ELSE SubSeq(s, IF i < 1 THEN 1 ELSE i, IF j > Len(s) THEN Len(s) ELSE j)

From(s, i) == Sub(s, i, Len(s))

\* the literal p occurs in s at position i
At(s, i, p) == i >= 1 /\ i + Len(p) - 1 <= Len(s) /\ SubSeq(s, i, i + Len(p) - 1) = p

Min(S) == CHOOSE x \in S : \A y \in S : x <= y

Max(S) == CHOOSE x \in S : \A y \in S : x >= y

\* the first position >= i whose character is not in S (Len(s)+1 when there is none): a greedy S*
SkipSet(s, i, S) ==
  IF Ch(s, i) \notin S THEN i
  ELSE CHOOSE j \in (i + 1)..(Len(s) + 1) :
         Ch(s, j) \notin S /\ \A k \in (i + 1)..(j - 1) : Ch(s, k) \in S

\* the last position <= i whose character is not in S (0 when there is none)
SkipBack(s, i, S) ==
  IF Ch(s, i) \notin S THEN i
  ELSE CHOOSE j \in 0..(i - 1) :
         Ch(s, j) \notin S /\ \A k \in (j + 1)..(i - 1) : Ch(s, k) \in S

\* s.indexOf(p, i-1) + 1: the first position >= i where p occurs, 0 when it does not
IndexOfFrom(s, p, i) ==
  IF \E j \in i..(Len(s) - Len(p) + 1) : At(s, j, p)
  THEN CHOOSE j \in i..(Len(s) - Len(p) + 1) :
         At(s, j, p) /\ \A k \in i..(j - 1) : ~At(s, k, p)
  ELSE 0

\* s.includes(p)
Includes(s, p) == IndexOfFrom(s, p, 1) # 0

StartsWith(s, p) == At(s, 1, p)

EndsWith(s, p) == At(s, Len(s) - Len(p) + 1, p)

\* s.trimEnd(), s.trimStart(), s.trim()
TrimEnd(s) == Sub(s, 1, SkipBack(s, Len(s), Space))

TrimStart(s) == From(s, SkipSet(s, 1, Space))

Trim(s) == TrimStart(TrimEnd(s))

RECURSIVE SplitFrom(_, _)
SplitFrom(s, i) ==
  IF i > Len(s) THEN <<"">>
  ELSE LET nl == IndexOfFrom(s, "\n", i)
       IN IF nl = 0 THEN <<From(s, i)>>
          ELSE <<Sub(s, i, nl - 1)>> \o SplitFrom(s, nl + 1)

\* s.split('\n'): never empty, "" splits into one empty line
Split(s) == SplitFrom(s, 1)

RECURSIVE JoinFrom(_, _, _)
JoinFrom(lines, sep, i) ==
  IF i > Len(lines) THEN ""
  ELSE IF i = Len(lines) THEN lines[i]
  ELSE lines[i] \o sep \o JoinFrom(lines, sep, i + 1)

\* lines.join(sep)
Join(lines, sep) == JoinFrom(lines, sep, 1)

RECURSIVE ReplaceAllFrom(_, _, _, _)
ReplaceAllFrom(s, p, r, i) ==
  IF i > Len(s) THEN ""
  ELSE LET k == IndexOfFrom(s, p, i)
       IN IF k = 0 THEN From(s, i)
          ELSE Sub(s, i, k - 1) \o r \o ReplaceAllFrom(s, p, r, k + Len(p))

\* s.replace(/p/g, r) for a literal p
ReplaceAll(s, p, r) == ReplaceAllFrom(s, p, r, 1)

\* (s.match(/c/g) || []).length for a single character c
Count(s, c) == Cardinality({i \in 1..Len(s) : Ch(s, i) = c})

\* '^' under the m flag: at the start of the text or right after a line terminator
LineStart(s, i) == i = 1 \/ Ch(s, i - 1) \in LineTerm

\* '$' under the m flag, seen from the position after the last matched character
LineEnd(s, i) == i > Len(s) \/ Ch(s, i) \in LineTerm

\* \b between positions i-1 and i
WordBoundary(s, i) == (Ch(s, i - 1) \in Word) # (Ch(s, i) \in Word)

RECURSIVE toLowerCaseFrom(_, _)
toLowerCaseFrom(s, i) ==
  IF i > Len(s) THEN ""
  ELSE LET hits == {j \in i..Len(s) : Ch(s, j) \in Upper}
       IN IF hits = {} THEN From(s, i)
          ELSE Sub(s, i, Min(hits) - 1)
               \o Ch(LowerLetters,
                     CHOOSE k \in 1..Len(UpperLetters) : Ch(UpperLetters, k) = Ch(s, Min(hits)))
               \o toLowerCaseFrom(s, Min(hits) + 1)

\* s.toLowerCase()
toLowerCase(s) == toLowerCaseFrom(s, 1)

(***************************************************************************)
(* detectMixedLanguages (part_001:1057-1091).                              *)
(***************************************************************************)
\* /kw\s+/ : the keyword followed by at least one white-space character, anywhere
KeywordThenSpace(s, kw) == \E i \in 1..Len(s) : At(s, i, kw) /\ Ch(s, i + Len(kw)) \in Space

\* /^kw\s+/ without the m flag: only at the very start of the text
StartKeywordThenSpace(s, kw) == At(s, 1, kw) /\ Ch(s, 1 + Len(kw)) \in Space

\* /c\s*$/m : c, then white space, then the end of a line. \s* may give characters
\* back, so the match exists iff the blanks after c run up to a line terminator or the end
CharThenLineEnd(s, c) ==
  \E i \in 1..Len(s) : Ch(s, i) = c /\ LineEnd(s, SkipSet(s, i + 1, Space \ LineTerm))

\* /a\s+b/
TwoWords(s, a, b) ==
  \E i \in 1..Len(s) :
    At(s, i, a) /\ Ch(s, i + Len(a)) \in Space /\ At(s, SkipSet(s, i + Len(a), Space), b)

B2N(b) == IF b THEN 1 ELSE 0

\* pythonPatterns = [/^def\s+/, /^import\s+/, /^\s+[a-z]/, /print\(/, /:\s*$/m]
pythonIndicators(s) ==
    B2N(StartKeywordThenSpace(s, "def"))
  + B2N(StartKeywordThenSpace(s, "import"))
  + B2N(Ch(s, 1) \in Space /\ Ch(s, SkipSet(s, 1, Space)) \in Lower)
  + B2N(Includes(s, "print("))
  + B2N(CharThenLineEnd(s, ":"))

\* jsPatterns = [/function\s+/, /const\s+/, /let\s+/, /console\.log/, /{\s*$/m]
jsIndicators(s) ==
    B2N(KeywordThenSpace(s, "function"))
  + B2N(KeywordThenSpace(s, "const"))
  + B2N(KeywordThenSpace(s, "let"))
  + B2N(Includes(s, "console.log"))
  + B2N(CharThenLineEnd(s, "{"))

\* javaPatterns = [/public\s+class/, /public\s+static/, /;$/m]
javaIndicators(s) ==
    B2N(TwoWords(s, "public", "class"))
  + B2N(TwoWords(s, "public", "static"))
  + B2N(\E i \in 1..Len(s) : Ch(s, i) = ";" /\ LineEnd(s, i + 1))

\* the indicators object, in insertion order
indicators(s) ==
  << [lang |-> "python", count |-> pythonIndicators(s)],
     [lang |-> "javascript", count |-> jsIndicators(s)],
     [lang |-> "java", count |-> javaIndicators(s)] >>

\* e put before the entries that are not greater: equal counts in reverse insertion order
InsertDescBeforeEqual(sorted, e) ==
  LET smaller == {i \in 1..Len(sorted) : sorted[i].count <= e.count}
      k == IF smaller = {} THEN Len(sorted) + 1 ELSE Min(smaller)
  IN SubSeq(sorted, 1, k - 1) \o <<e>> \o SubSeq(sorted, k, Len(sorted))

RECURSIVE InsertDesc(_, _)
\* e put into the descending list after every entry that is not smaller (a stable sort)
InsertDesc(sorted, e) ==
  IF sorted = << >> THEN <<e>>
  ELSE IF Head(sorted).count >= e.count THEN <<Head(sorted)>> \o InsertDesc(Tail(sorted), e)
  ELSE <<e>> \o sorted

RECURSIVE SortDesc(_)
\* entries.sort(([, a], [, b]) => b - a)
SortDesc(es) ==
  IF es = << >> THEN << >>
  ELSE InsertDesc(SortDesc(SubSeq(es, 1, Len(es) - 1)), es[Len(es)])

\* confidence is 0.7 or 1.0 in the source; kept in hundredths
detectMixedLanguages(s) ==
  LET ind == indicators(s)
      nonzero == SelectSeq(ind, LAMBDA e : e.count > 0)
      sorted == SortDesc(nonzero)
      detected == Len(nonzero) > 1
  IN [detected |-> detected,
      languages |-> [i \in 1..Len(sorted) |-> sorted[i].lang],
      confidence |-> IF detected THEN 70 ELSE 100]

(***************************************************************************)
(* detectLanguage (part_001:1183-1225).                                    *)
(***************************************************************************)
\* /^\s{2,}[a-z]/.test(l)
IndentedLower(l) ==
  /\ Ch(l, 1) \in Space
  /\ Ch(l, 2) \in Space
  /\ Ch(l, SkipSet(l, 1, Space)) \in Lower

IncludesAny(s, needles) == \E needle \in needles : Includes(s, needle)

\* the last entry of the sorted scores instead of the first
lastDetectedOrDefault(sorted) ==
  IF sorted = << >> THEN "javascript" ELSE sorted[Len(sorted)].lang

\* first entry of the sorted scores, 'javascript' when there is none
detectedOrDefault(sorted) ==
  IF sorted = << >> THEN "javascript" ELSE sorted[1].lang

\* the scores object: a key per language whose conditions fired, in the order
\* of the conditions; lowered is code.toLowerCase()
languageScores(lowered) ==
  LET lines == Split(lowered)
      all ==
        << [lang |-> "python",
            count |-> (IF Includes(lowered, "def ") THEN 3 ELSE 0)
                      + (IF IncludesAny(lowered, {"import ", "from "}) THEN 2 ELSE 0)
                      + (IF Includes(lowered, "print(") THEN 2 ELSE 0)
                      + (IF \E i \in 1..Len(lines) : IndentedLower(lines[i]) THEN 1 ELSE 0)],
           [lang |-> "javascript",
            count |-> (IF IncludesAny(lowered, {"function ", "const ", "let "}) THEN 3 ELSE 0)
                      + (IF Includes(lowered, "console.log") THEN 2 ELSE 0)],
           [lang |-> "typescript",
            count |-> IF IncludesAny(lowered, {": string", ": number", "interface "}) THEN 3 ELSE 0],
           [lang |-> "java",
            count |-> IF IncludesAny(lowered, {"public class", "public static"}) THEN 3 ELSE 0],
           [lang |-> "cpp",
            count |-> IF IncludesAny(lowered, {"#include", "std::"}) THEN 3 ELSE 0],
           [lang |-> "go",
            count |-> IF Includes(lowered, "package ") /\ Includes(lowered, "func ") THEN 3 ELSE 0],
           [lang |-> "rust",
            count |-> IF Includes(lowered, "fn ") /\ Includes(lowered, "let ") THEN 3 ELSE 0],
           [lang |-> "csharp",
            count |-> IF Includes(lowered, "using ") /\ Includes(lowered, "namespace ") THEN 3 ELSE 0],
           [lang |-> "php",
            count |-> IF IncludesAny(lowered, {"<?php", "$"}) THEN 3 ELSE 0],
           [lang |-> "ruby",
            count |-> IF Includes(lowered, "def ") /\ Includes(lowered, "end") THEN 2 ELSE 0] >>
  IN SelectSeq(all, LAMBDA e : e.count > 0)

detectLanguage(s) ==
  CHOOSE r \in {detectedOrDefault(SortDesc(languageScores(lowered))) : lowered \in {toLowerCase(s)}} : TRUE

(***************************************************************************)
(* preprocessCode (part_001:1096-1115).                                    *)
(***************************************************************************)
MapTrimEnd(lines) == [i \in 1..Len(lines) |-> TrimEnd(lines[i])]

RECURSIVE FixBraceSpacing(_, _)
\* processed.replace(/(\w)\s+{/g, '$1 {')
FixBraceSpacing(s, i) ==
  IF i > Len(s) THEN ""
  ELSE LET hits == {j \in i..Len(s) : /\ Ch(s, j) \in Word
                                      /\ Ch(s, j + 1) \in Space
                                      /\ Ch(s, SkipSet(s, j + 1, Space)) = "{"}
       IN IF hits = {} THEN From(s, i)
          ELSE Sub(s, i, Min(hits)) \o " {"
               \o FixBraceSpacing(s, SkipSet(s, Min(hits) + 1, Space) + 1)

RECURSIVE FixCommaSpacing(_, _)
\* processed.replace(/,\s+/g, ', ')
FixCommaSpacing(s, i) ==
  IF i > Len(s) THEN ""
  ELSE LET hits == {j \in i..Len(s) : Ch(s, j) = "," /\ Ch(s, j + 1) \in Space}
       IN IF hits = {} THEN From(s, i)
          ELSE Sub(s, i, Min(hits) - 1) \o ", "
               \o FixCommaSpacing(s, SkipSet(s, Min(hits) + 1, Space))

RECURSIVE FixSemicolonSpacing(_, _)
\* processed.replace(/\s+;/g, ';')
FixSemicolonSpacing(s, i) ==
  IF i > Len(s) THEN ""
  ELSE LET hits == {j \in i..Len(s) : Ch(s, j) \in Space /\ Ch(s, SkipSet(s, j, Space)) = ";"}
       IN IF hits = {} THEN From(s, i)
          ELSE Sub(s, i, Min(hits) - 1) \o ";"
               \o FixSemicolonSpacing(s, SkipSet(s, Min(hits), Space) + 1)

\* Each step works on the value of the step before it: the value is bound as the one
\* element of a set, here and wherever a chain of assignments is modelled.
preprocessCode(s) ==
  [processed |->
     CHOOSE processed \in
       {FixSemicolonSpacing(commas, 1) : commas \in
         {FixCommaSpacing(braces, 1) : braces \in
           {FixBraceSpacing(trimmed, 1) : trimmed \in
             {Join(MapTrimEnd(Split(unixEndings)), "\n") : unixEndings \in
               {ReplaceAll(s, "\r\n", "\n")}}}}} : TRUE,
   warnings |-> << >>]

(***************************************************************************)
(* normalizeCode (part_001:1120-1178).                                     *)
(***************************************************************************)
RECURSIVE FixElif(_, _)
\* normalized.replace(/^\s*elif\s+/gm, 'else if ')
FixElif(s, i) ==
  IF i > Len(s) THEN ""
  ELSE LET hits == {j \in i..Len(s) : /\ LineStart(s, j)
                                      /\ At(s, SkipSet(s, j, Space), "elif")
                                      /\ Ch(s, SkipSet(s, j, Space) + 4) \in Space}
       IN IF hits = {} THEN From(s, i)
          ELSE Sub(s, i, Min(hits) - 1) \o "else if "
               \o FixElif(s, SkipSet(s, SkipSet(s, Min(hits), Space) + 4, Space))

\* the first alternative of the list that occurs at position k, "" when none does
KeywordAt(s, k, kws) ==
  LET hits == SelectSeq(kws, LAMBDA kw : At(s, k, kw))
  IN IF hits = << >> THEN "" ELSE Head(hits)

ColonKeywords ==
  <<"if", "elif", "else", "for", "while", "def", "class", "try", "except", "finally", "with">>

BraceKeywords ==
  <<"function", "if", "else", "for", "while", "class", "try", "catch", "finally">>

\* ^(\s*(?:kw1|kw2|...).+?)(\n) tried at position i under the m flag: the position of
\* the "\n" that ends the match, 0 when there is no match. The lazy .+? stops at the
\* first "\n" and needs at least one character, none of them a line terminator.
HeaderMatch(s, i, kws) ==
  LET k == SkipSet(s, i, Space)
      kw == KeywordAt(s, k, kws)
      a == k + Len(kw)
      nl == IndexOfFrom(s, "\n", a)
  IN IF LineStart(s, i) /\ kw # "" /\ nl > a /\ ~Includes(Sub(s, a, nl - 1), "\r")
     THEN nl ELSE 0

\* the test of the missing-colon replacer (line 1140)
NeedsColon(content) ==
  LET t == Trim(content)
  IN ~EndsWith(t, ":") /\ ~EndsWith(t, "{") /\ ~EndsWith(t, "else")

\* the test of the missing-brace replacer (line 1148)
NeedsBrace(content) ==
  LET t == Trim(content)
  IN ~EndsWith(t, "{") /\ ~EndsWith(t, "else")

RECURSIVE FixMissingColons(_, _)
\* lines 1139-1144
FixMissingColons(s, i) ==
  IF i > Len(s) THEN ""
  ELSE LET hits == {j \in i..Len(s) : HeaderMatch(s, j, ColonKeywords) # 0}
       IN IF hits = {} THEN From(s, i)
          ELSE LET nl == HeaderMatch(s, Min(hits), ColonKeywords)
                   content == Sub(s, Min(hits), nl - 1)
               IN Sub(s, i, Min(hits) - 1)
                  \o content \o (IF NeedsColon(content) THEN ":" ELSE "") \o "\n"
                  \o FixMissingColons(s, nl + 1)

RECURSIVE FixMissingBraces(_, _)
\* lines 1147-1152; the lookahead (?!\s*{) looks past the white space after the "\n"
FixMissingBraces(s, i) ==
  IF i > Len(s) THEN ""
  ELSE LET hits == {j \in i..Len(s) :
                      /\ HeaderMatch(s, j, BraceKeywords) # 0
                      /\ Ch(s, SkipSet(s, HeaderMatch(s, j, BraceKeywords) + 1, Space)) # "{"}
       IN IF hits = {} THEN From(s, i)
          ELSE LET nl == HeaderMatch(s, Min(hits), BraceKeywords)
                   content == Sub(s, Min(hits), nl - 1)
               IN Sub(s, i, Min(hits) - 1)
                  \o content \o (IF NeedsBrace(content) THEN " {" ELSE "") \o "\n"
                  \o FixMissingBraces(s, nl + 1)

\* the comment test of lines 1159 and 1241
IsCommentLine(line) ==
  LET t == Trim(line)
  IN StartsWith(t, "//") \/ StartsWith(t, "#") \/ StartsWith(t, "/*")

RECURSIVE FixQuotes(_, _)
\* line.replace(/(?<!\\)'/g, '"')
FixQuotes(s, i) ==
  IF i > Len(s) THEN ""
  ELSE LET hits == {j \in i..Len(s) : Ch(s, j) = "'" /\ Ch(s, j - 1) # "\\"}
       IN IF hits = {} THEN From(s, i)
          ELSE Sub(s, i, Min(hits) - 1) \o "\"" \o FixQuotes(s, Min(hits) + 1)

UnifyQuotes(s) ==
  LET lines == Split(s)
  IN Join([i \in 1..Len(lines) |->
             IF IsCommentLine(lines[i]) THEN lines[i] ELSE FixQuotes(lines[i], 1)], "\n")

RECURSIVE CollapseSemicolons(_, _)
\* normalized.replace(/;;+/g, ';')
CollapseSemicolons(s, i) ==
  IF i > Len(s) THEN ""
  ELSE LET k == IndexOfFrom(s, ";;", i)
       IN IF k = 0 THEN From(s, i)
          ELSE Sub(s, i, k - 1) \o ";" \o CollapseSemicolons(s, SkipSet(s, k, {";"}))

MixedWarning(languages) ==
  "Mixed languages detected: " \o Join(languages, ", ") \o ". Normalizing code..."

\* lines 1130-1177 on the preprocessed text
NormalizeProcessed(pre, mixed) ==
  [normalized |->
     CHOOSE normalized \in
       {ReplaceAll(ors, "&&", "and") : ors \in
         {ReplaceAll(semis, "||", "or") : semis \in
           {CollapseSemicolons(quotes, 1) : quotes \in
             {UnifyQuotes(braces) : braces \in
               {FixMissingBraces(colons, 1) : colons \in
                 {FixMissingColons(elif, 1) : elif \in
                   {FixElif(pre.processed, 1)}}}}}}} : TRUE,
   warnings |-> pre.warnings
                \o (IF mixed.detected THEN <<MixedWarning(mixed.languages)>> ELSE << >>)]

normalizeCode(s) ==
  CHOOSE r \in {NormalizeProcessed(pre, detectMixedLanguages(pre.processed)) :
                  pre \in {preprocessCode(s)}} : TRUE

(***************************************************************************)
(* The per-line rewrite rules (part_001:1285-1616). Each regular           *)
(* expression is matched on one line; `end` is the last position of the    *)
(* match and 0 means no match.                                             *)
(***************************************************************************)
NoMatch == [end |-> 0, indent |-> "", name |-> "", inner |-> ""]

\* the first position >= i that '.' does not match (Len(s)+1 when there is none)
SkipDots(s, i) ==
  IF i > Len(s) THEN i
  ELSE CHOOSE j \in i..(Len(s) + 1) :
         (j > Len(s) \/ Ch(s, j) \in LineTerm) /\ \A k \in i..(j - 1) : Ch(s, k) \notin LineTerm

\* the positions of the ")" a lazy (.*?)\) opened after position o can stop at
ClosersAfter(s, o) == {c \in (o + 1)..(SkipDots(s, o + 1) - 1) : Ch(s, c) = ")"}

\* \s*(?:->.*)?: tried at position q: the position of the ":" that ends it, 0 if none.
\* The greedy .* runs to the end of the line and gives back down to the last ":".
ReturnTypeColon(s, q) ==
  LET r == SkipSet(s, q, Space)
      colons == {c \in (r + 2)..(SkipDots(s, r + 2) - 1) : Ch(s, c) = ":"}
  IN IF At(s, r, "->") /\ colons # {} THEN Max(colons)
     ELSE IF Ch(s, r) = ":" THEN r
     ELSE 0

\* ^(\s*)def\s+(\w+)\s*\((.*?)\)\s*(?:->.*)?:
MatchPythonDef(line) ==
  LET d == SkipSet(line, 1, Space)
      n0 == SkipSet(line, d + 3, Space)
      n1 == SkipSet(line, n0, Word)
      o == SkipSet(line, n1, Space)
      ok == {c \in ClosersAfter(line, o) : ReturnTypeColon(line, c + 1) # 0}
  IN IF At(line, d, "def") /\ n0 > d + 3 /\ n1 > n0 /\ Ch(line, o) = "(" /\ ok # {}
     THEN [end |-> ReturnTypeColon(line, Min(ok) + 1), indent |-> Sub(line, 1, d - 1),
           name |-> Sub(line, n0, n1 - 1), inner |-> Sub(line, o + 1, Min(ok) - 1)]
     ELSE NoMatch

\* ^(\s*)(?:async\s+)?function\s+(\w+)\s*\((.*?)\)\s*{
MatchJsFunction(line) ==
  LET d == SkipSet(line, 1, Space)
      a == SkipSet(line, d + 5, Space)
      f == IF At(line, d, "async") /\ a > d + 5 THEN a ELSE d
      n0 == SkipSet(line, f + 8, Space)
      n1 == SkipSet(line, n0, Word)
      o == SkipSet(line, n1, Space)
      ok == {c \in ClosersAfter(line, o) : Ch(line, SkipSet(line, c + 1, Space)) = "{"}
  IN IF At(line, f, "function") /\ n0 > f + 8 /\ n1 > n0 /\ Ch(line, o) = "(" /\ ok # {}
     THEN [end |-> SkipSet(line, Min(ok) + 1, Space), indent |-> Sub(line, 1, d - 1),
           name |-> Sub(line, n0, n1 - 1), inner |-> Sub(line, o + 1, Min(ok) - 1)]
     ELSE NoMatch

\* the switch of lines 1293-1313 and 1319-1338: the header for the target, "" for default
FunctionHeader(target, indent, name, params, fromPython) ==
  LET sig == name \o "(" \o params \o ")"
  IN CASE target \in {"javascript", "typescript"} /\ fromPython -> indent \o "function " \o sig \o " {"
       [] target = "python" /\ ~fromPython -> indent \o "def " \o sig \o ":"
       [] target = "java" -> indent \o "public static Object " \o sig \o " {"
       [] target = "cpp" -> indent \o "void " \o sig \o " {"
       [] target = "csharp" -> indent \o "public static object " \o sig \o " {"
       [] target = "go" -> indent \o "func " \o sig \o " {"
       [] target = "rust" -> indent \o "fn " \o sig \o " {"
       [] target = "php" -> indent \o "function " \o sig \o " {"
       [] target = "ruby" -> indent \o "def " \o sig
       [] OTHER -> ""

\* line.replace(re, replacer) with the first match m; the default branch of the
\* replacers returns the whole line in place of the match
ReplaceMatch(line, m, replacement) ==
  IF m.end = 0 THEN line
  ELSE (IF replacement = "" THEN line ELSE replacement) \o From(line, m.end + 1)

transformFunctionDef(line, source, target) ==
  IF source = "python"
  THEN LET m == MatchPythonDef(line)
       IN ReplaceMatch(line, m, FunctionHeader(target, m.indent, m.name, m.inner, TRUE))
  ELSE IF source \in {"javascript", "typescript"}
  THEN LET m == MatchJsFunction(line)
       IN ReplaceMatch(line, m, FunctionHeader(target, m.indent, m.name, m.inner, FALSE))
  ELSE line

\* ^(\s*)class\s+(\w+)(?:\((.*?)\))?\s*:
MatchPythonClass(line) ==
  LET d == SkipSet(line, 1, Space)
      n0 == SkipSet(line, d + 5, Space)
      n1 == SkipSet(line, n0, Word)
      ok == {c \in ClosersAfter(line, n1) : Ch(line, SkipSet(line, c + 1, Space)) = ":"}
      withBase == Ch(line, n1) = "(" /\ ok # {}
      bare == SkipSet(line, n1, Space)
  IN IF At(line, d, "class") /\ n0 > d + 5 /\ n1 > n0 /\ (withBase \/ Ch(line, bare) = ":")
     THEN [end |-> IF withBase THEN SkipSet(line, Min(ok) + 1, Space) ELSE bare,
           indent |-> Sub(line, 1, d - 1), name |-> Sub(line, n0, n1 - 1),
           inner |-> IF withBase THEN Sub(line, n1 + 1, Min(ok) - 1) ELSE ""]
     ELSE NoMatch

GoClassWarning == "Go does not have classes. Converting to struct."

\* the switch of lines 1353-1374
ClassHeader(target, indent, name) ==
  CASE target \in {"javascript", "typescript", "cpp", "php"} -> indent \o "class " \o name \o " {"
    [] target \in {"java", "csharp"} -> indent \o "public class " \o name \o " {"
    [] target = "go" -> indent \o "type " \o name \o " struct {"
    [] target = "rust" -> indent \o "struct " \o name \o " {"
    [] target = "ruby" -> indent \o "class " \o name
    [] OTHER -> ""

\* the warnings the class replacer pushes (line 1364): only the go branch pushes one
ClassWarnings(target) == IF target = "go" THEN <<GoClassWarning>> ELSE << >>

\* the only rule that pushes a warning, so the only one that returns the pair
transformClassDef(line, source, target) ==
  IF source = "python"
  THEN LET m == MatchPythonClass(line)
       IN [line |-> ReplaceMatch(line, m, ClassHeader(target, m.indent, m.name)),
           warnings |-> IF m.end # 0 THEN ClassWarnings(target) ELSE << >>]
  ELSE [line |-> line, warnings |-> << >>]

\* [\w\s,.*]
ImportNameChars == Word \cup Space \cup {",", ".", "*"}

\* import\s+([\w\s,.*]+) tried at position k; when nothing follows the white space,
\* \s+ gives its last character back to the name list
MatchImportAt(line, k) ==
  LET sp == SkipSet(line, k + 6, Space)
      ne == SkipSet(line, sp, ImportNameChars)
  IN IF ~(At(line, k, "import") /\ sp > k + 6) THEN [end |-> 0, names |-> ""]
     ELSE IF ne > sp THEN [end |-> ne - 1, names |-> Sub(line, sp, ne - 1)]
     ELSE IF sp > k + 7 THEN [end |-> sp - 1, names |-> Ch(line, sp - 1)]
     ELSE [end |-> 0, names |-> ""]

\* ^(\s*)(?:from\s+(\S+)\s+)?import\s+([\w\s,.*]+) ; module "" stands for undefined
MatchPythonImport(line) ==
  LET d == SkipSet(line, 1, Space)
      m0 == SkipSet(line, d + 4, Space)
      m1 == SkipSet(line, m0, {Ch(line, i) : i \in m0..Len(line)} \ Space)
      k == SkipSet(line, m1, Space)
      withFrom == IF At(line, d, "from") /\ m0 > d + 4 /\ m1 > m0 /\ k > m1
                  THEN MatchImportAt(line, k) ELSE [end |-> 0, names |-> ""]
      bare == MatchImportAt(line, d)
  IN IF withFrom.end # 0
     THEN [end |-> withFrom.end, indent |-> Sub(line, 1, d - 1), names |-> withFrom.names,
           module |-> Sub(line, m0, m1 - 1)]
     ELSE [end |-> bare.end, indent |-> Sub(line, 1, d - 1), names |-> bare.names, module |-> ""]

\* module || fallback
OrElse(module, fallback) == IF module = "" THEN fallback ELSE module

\* the switch of lines 1391-1409
ImportStatement(target, indent, module, names) ==
  CASE target \in {"javascript", "typescript"} ->
         indent \o "import " \o names \o " from '" \o OrElse(module, "module") \o "';"
    [] target = "java" -> indent \o "import " \o OrElse(module, "undefined") \o ".*;"
    [] target = "cpp" -> indent \o "#include \"" \o OrElse(module, "module.h") \o "\""
    [] target = "go" -> indent \o "import \"" \o OrElse(module, "package") \o "\""
    [] target = "csharp" -> indent \o "using " \o OrElse(module, "Namespace") \o ";"
    [] target = "php" -> indent \o "require('" \o OrElse(module, "module") \o "');"
    [] target = "ruby" -> indent \o "require '" \o OrElse(module, "module") \o "'"
    [] OTHER -> ""

transformImportStatement(line, source, target) ==
  IF source = "python" /\ Includes(line, "import ")
  THEN LET m == MatchPythonImport(line)
       IN ReplaceMatch(line, m, ImportStatement(target, m.indent, m.module, m.names))
  ELSE line

\* kw\s*\((.*?)\)(?=;|$) tried at position i (with \b before kw when wordStart): the
\* position of the closing ")", 0 when there is no match. $ has no m flag here.
MatchCall(line, i, kw, wordStart) ==
  LET o == SkipSet(line, i + Len(kw), Space)
      ok == {c \in ClosersAfter(line, o) : Ch(line, c + 1) = ";" \/ c = Len(line)}
  IN IF At(line, i, kw) /\ (~wordStart \/ Ch(line, i - 1) \notin Word) /\ Ch(line, o) = "("
        /\ ok # {}
     THEN Min(ok) ELSE 0

\* every target given the Java call
PrintCallAlwaysJava(target, kw, args) == "System.out.println(" \o args \o ")"

\* the switches of lines 1426-1444, 1451-1467, 1475-1492: what replaces the call
\* kw(args) for the target; "" stands for the default branch, which keeps the match
PrintCall(target, kw, args) ==
  CASE target \in {"javascript", "typescript"} /\ kw # "console.log" -> "console.log(" \o args \o ")"
    [] target = "python" /\ kw # "print" -> "print(" \o args \o ")"
    [] target = "java" /\ kw # "System.out.println" -> "System.out.println(" \o args \o ")"
    [] target = "cpp" -> "std::cout << " \o args \o " << std::endl;"
    [] target = "go" -> "fmt.Println(" \o args \o ")"
    [] target = "csharp" -> "Console.WriteLine(" \o args \o ");"
    [] target = "php" -> "echo " \o args \o ";"
    [] target = "ruby" -> "puts " \o args
    [] OTHER -> ""

RECURSIVE ReplaceCalls(_, _, _, _, _)
\* line.replace(/...kw\s*\((.*?)\)(?=;|$)/g, replacer)
ReplaceCalls(line, i, kw, wordStart, target) ==
  IF i > Len(line) THEN ""
  ELSE LET hits == {j \in i..Len(line) : MatchCall(line, j, kw, wordStart) # 0}
       IN IF hits = {} THEN From(line, i)
          ELSE LET c == MatchCall(line, Min(hits), kw, wordStart)
                   o == SkipSet(line, Min(hits) + Len(kw), Space)
                   r == PrintCall(target, kw, Sub(line, o + 1, c - 1))
               IN Sub(line, i, Min(hits) - 1)
                  \o (IF r = "" THEN Sub(line, Min(hits), c) ELSE r)
                  \o ReplaceCalls(line, c + 1, kw, wordStart, target)

transformPrintStatement(line, source, target) ==
  IF source = "python" /\ Includes(line, "print")
  THEN ReplaceCalls(line, 1, "print", TRUE, target)
  ELSE IF source \in {"javascript", "typescript"} /\ Includes(line, "console.log")
  THEN ReplaceCalls(line, 1, "console.log", TRUE, target)
  ELSE IF source = "java" /\ Includes(line, "System.out.println")
  THEN ReplaceCalls(line, 1, "System.out.println", FALSE, target)
  ELSE line

\* ^(\s*)if\s+\(?(.*?)\)?\s*:?$ : the lazy condition is what is left once the longest
\* tail of the form \)?\s*:? is taken off the end of the line
MatchIf(line) ==
  LET d == SkipSet(line, 1, Space)
      s0 == SkipSet(line, d + 2, Space)
      c0 == IF Ch(line, s0) = "(" THEN s0 + 1 ELSE s0
      n == Len(line)
      t1 == IF n >= c0 /\ Ch(line, n) = ":" THEN n - 1 ELSE n
      t2 == Max({c0 - 1, SkipBack(line, t1, Space)})
      t3 == IF t2 >= c0 /\ Ch(line, t2) = ")" THEN t2 - 1 ELSE t2
  IN IF At(line, d, "if") /\ s0 > d + 2 /\ SkipDots(line, c0) > t3
     THEN [end |-> n, indent |-> Sub(line, 1, d - 1), name |-> "", inner |-> Sub(line, c0, t3)]
     ELSE NoMatch

\* condition.replace(/:\s*$/, '').trim()
CleanCondition(cond) ==
  LET t == TrimEnd(cond)
  IN Trim(IF EndsWith(t, ":") THEN Sub(t, 1, Len(t) - 1) ELSE cond)

\* the switch of lines 1509-1525
IfHeader(target, indent, cond) ==
  CASE target = "python" -> indent \o "if " \o cond \o ":"
    [] target \in {"javascript", "typescript", "java", "cpp", "csharp"} ->
         indent \o "if (" \o cond \o ") {"
    [] target = "go" -> indent \o "if " \o cond \o " {"
    [] OTHER -> ""

\* here the default branch returns the match, which is the whole line
transformConditionals(line, source, target) ==
  LET m == MatchIf(line)
      r == IfHeader(target, m.indent, CleanCondition(m.inner))
  IN IF m.end = 0 \/ r = "" THEN line ELSE r

\* ^(\s*)for\s+(\w+)\s+in\s+([\w.]+)\s*:
MatchPythonFor(line) ==
  LET d == SkipSet(line, 1, Space)
      v0 == SkipSet(line, d + 3, Space)
      v1 == SkipSet(line, v0, Word)
      k == SkipSet(line, v1, Space)
      i0 == SkipSet(line, k + 2, Space)
      i1 == SkipSet(line, i0, Word \cup {"."})
      e == SkipSet(line, i1, Space)
  IN IF At(line, d, "for") /\ v0 > d + 3 /\ v1 > v0 /\ k > v1 /\ At(line, k, "in")
        /\ i0 > k + 2 /\ i1 > i0 /\ Ch(line, e) = ":"
     THEN [end |-> e, indent |-> Sub(line, 1, d - 1), name |-> Sub(line, v0, v1 - 1),
           inner |-> Sub(line, i0, i1 - 1)]
     ELSE NoMatch

\* the switch of lines 1538-1550; the default branch returns the match
ForHeader(target, indent, var, iter) ==
  CASE target \in {"javascript", "typescript"} -> indent \o "for (let " \o var \o " of " \o iter \o ") {"
    [] target = "java" -> indent \o "for (var " \o var \o " : " \o iter \o ") {"
    [] target = "cpp" -> indent \o "for (auto " \o var \o " : " \o iter \o ") {"
    [] target = "go" -> indent \o "for " \o var \o " := range " \o iter \o " {"
    [] OTHER -> ""

transformLoops(line, source, target) ==
  IF source = "python"
  THEN LET m == MatchPythonFor(line)
           r == ForHeader(target, m.indent, m.name, m.inner)
       IN IF m.end = 0 \/ r = "" THEN line ELSE r \o From(line, m.end + 1)
  ELSE line

\* ^(\s*)(\w+)\s*=\s*(.+)$ ; when nothing follows the white space after "=", \s* gives
\* its last character back to the value
MatchAssignment(line) ==
  LET d == SkipSet(line, 1, Space)
      n1 == SkipSet(line, d, Word)
      q == SkipSet(line, n1, Space)
      v0 == SkipSet(line, q + 1, Space)
      v == IF v0 <= Len(line) THEN v0 ELSE v0 - 1
  IN IF n1 > d /\ Ch(line, q) = "=" /\ v > q /\ SkipDots(line, v) > Len(line)
     THEN [end |-> Len(line), indent |-> Sub(line, 1, d - 1), name |-> Sub(line, d, n1 - 1),
           inner |-> From(line, v)]
     ELSE NoMatch

\* lines 1565-1570
Declaration(target, indent, name, value) ==
  CASE target = "python" -> indent \o name \o " = " \o value
    [] target \in {"javascript", "typescript", "java", "csharp"} ->
         indent \o "const " \o name \o " = " \o value \o ";"
    [] target \in {"cpp", "go", "rust", "php"} -> indent \o "const " \o name \o " = " \o value
    [] OTHER -> ""

transformVariableDeclaration(line, source, target) ==
  LET m == MatchAssignment(line)
      r == Declaration(target, m.indent, m.name, m.inner)
  IN IF m.end = 0 \/ r = "" THEN line ELSE r

RECURSIVE ReplaceWord(_, _, _, _)
\* line.replace(/\bw\b/g, r) for a word w
ReplaceWord(line, i, w, r) ==
  IF i > Len(line) THEN ""
  ELSE LET hits == {j \in i..Len(line) : /\ At(line, j, w)
                                         /\ Ch(line, j - 1) \notin Word
                                         /\ Ch(line, j + Len(w)) \notin Word}
       IN IF hits = {} THEN From(line, i)
          ELSE Sub(line, i, Min(hits) - 1) \o r \o ReplaceWord(line, Min(hits) + Len(w), w, r)

transformBooleanConstants(line, source, target) ==
  IF source = "python"
  THEN ReplaceWord(ReplaceWord(ReplaceWord(line, 1, "True", "true"), 1, "False", "false"),
                   1, "None", "null")
  ELSE line

transformOperators(line, source, target) ==
  IF source = "python" /\ target # "python"
  THEN ReplaceWord(ReplaceWord(ReplaceWord(line, 1, "and", "&&"), 1, "or", "||"), 1, "not", "!")
  ELSE line

\* line 1606
needsSemicolon(target) == target \in {"javascript", "typescript", "java", "cpp", "csharp"}

\* the endings after which no terminator is appended (line 1609)
EndsStatement(t) == EndsWith(t, ";") \/ EndsWith(t, "{") \/ EndsWith(t, ":")

transformStatementEndings(line, source, target) ==
  LET t == Trim(line)
  IN IF needsSemicolon(target) /\ source = "python" /\ ~EndsStatement(t)
        /\ t # "" /\ ~StartsWith(t, "//") /\ ~StartsWith(t, "#")
     THEN TrimEnd(line) \o ";"
     ELSE line

(***************************************************************************)
(* transformLine (part_001:1230-1282).                                     *)
(***************************************************************************)
Unchanged(line, lineNumber) ==
  [original |-> line, transformed |-> line, warnings |-> << >>, lineNumber |-> lineNumber,
   changeType |-> "unchanged"]

\* lines 1241: empty lines and comment lines are skipped
Skipped(line) == Trim(line) = "" \/ IsCommentLine(line)

\* the rules after the class rule with the conditional and loop rules before the print
\* and import rules
RulesAfterClassConditionalsFirst(cls, source, target) ==
  [line |->
     CHOOSE transformed \in
       {transformStatementEndings(operators, source, target) : operators \in
         {transformOperators(booleans, source, target) : booleans \in
           {transformBooleanConstants(variables, source, target) : variables \in
             {transformVariableDeclaration(imports, source, target) : imports \in
               {transformImportStatement(prints, source, target) : prints \in
                 {transformPrintStatement(loops, source, target) : loops \in
                   {transformLoops(conditionals, source, target) : conditionals \in
                     {transformConditionals(cls.line, source, target)}}}}}}}} : TRUE,
   warnings |-> cls.warnings]

\* the transformation sequence of lines 1255-1270, each rule on the output of the one before
\* the rules after the class rule, whose result cls carries the line's warnings
RulesAfterClass(cls, source, target) ==
  [line |->
     CHOOSE transformed \in
       {transformStatementEndings(operators, source, target) : operators \in
         {transformOperators(booleans, source, target) : booleans \in
           {transformBooleanConstants(variables, source, target) : variables \in
             {transformVariableDeclaration(loops, source, target) : loops \in
               {transformLoops(conditionals, source, target) : conditionals \in
                 {transformConditionals(prints, source, target) : prints \in
                   {transformPrintStatement(imports, source, target) : imports \in
                     {transformImportStatement(cls.line, source, target)}}}}}}}} : TRUE,
   warnings |-> cls.warnings]

ApplyRules(line, source, target) ==
  CHOOSE applied \in
    {RulesAfterClass(cls, source, target) : cls \in
      {transformClassDef(functions, source, target) : functions \in
        {transformFunctionDef(line, source, target)}}} : TRUE

\* the classification by the text alone, whatever warnings the line raised
ChangeTypeByText(lineWarnings, original, transformed) ==
  IF transformed # original THEN "changed" ELSE "unchanged"

\* line 1280
ChangeType(lineWarnings, original, transformed) ==
  IF Len(lineWarnings) > 0 THEN "warning"
  ELSE IF transformed # original THEN "changed"
  ELSE "unchanged"

\* lines 1275-1281: the record returned for a line the rules were applied to
Transformed(line, lineNumber, applied) ==
  [original |-> line, transformed |-> applied.line, warnings |-> applied.warnings,
   lineNumber |-> lineNumber, changeType |-> ChangeType(applied.warnings, line, applied.line)]

transformLine(line, source, target, lineNumber) ==
  IF Skipped(line) THEN Unchanged(line, lineNumber)
  ELSE Transformed(line, lineNumber, ApplyRules(line, source, target))

(***************************************************************************)
(* calculateLineChanges (part_001:1621-1637). translatedLines[i] past the  *)
(* end of the translated text is undefined: falsy, and equal to no line.   *)
(***************************************************************************)
calculateLineChanges(sourceCode, translatedText) ==
  LET sourceLines == Split(sourceCode)
      translatedLines == Split(translatedText)
  IN [i \in 1..Len(sourceLines) |->
        LET source == sourceLines[i]
            defined == i <= Len(translatedLines)
            translated == IF defined THEN translatedLines[i] ELSE ""
        IN [type |-> IF source = "" /\ translated # "" THEN "added"
                     ELSE IF source # "" /\ translated = "" THEN "removed"
                     ELSE IF defined /\ source = translated THEN "unchanged"
                     ELSE "changed",
            source |-> source,
            translated |-> translated]]

(***************************************************************************)
(* buildAST (part_001:1642-1694). The tree is kept flat: one node per      *)
(* non-blank line, with the line index of the node whose children array    *)
(* holds it (-1 for the top-level array).                                  *)
(***************************************************************************)
\* lines 1654-1661
NodeType(content) ==
  IF StartsWith(content, "function") \/ StartsWith(content, "def") \/ StartsWith(content, "fn")
  THEN "function"
  ELSE IF StartsWith(content, "class") THEN "class"
  ELSE IF StartsWith(content, "if") THEN "if"
  ELSE IF StartsWith(content, "for") \/ StartsWith(content, "while") THEN "for"
  ELSE IF StartsWith(content, "import") THEN "import"
  ELSE IF StartsWith(content, "//") \/ StartsWith(content, "#") THEN "comment"
  ELSE "statement"

\* lines 1683-1690
OpensBlock(type, content) ==
  type \in {"function", "class", "if"}
  \/ (type = "for" /\ (EndsWith(content, "{") \/ EndsWith(content, ":")))

RECURSIVE PopStale(_, _)
\* lines 1673-1675; the stack holds lineEnd of each open node, which is its own line
PopStale(stack, idx) ==
  IF Len(stack) > 0 /\ stack[Len(stack)] < idx - 1
  THEN PopStale(SubSeq(stack, 1, Len(stack) - 1), idx)
  ELSE stack

RECURSIVE BuildNodes(_, _, _, _)
\* the forEach of lines 1647-1691; i is 1-based, line indices are 0-based as in the source
BuildNodes(lines, i, stack, language) ==
  IF i > Len(lines) THEN << >>
  ELSE LET content == Trim(lines[i])
           idx == i - 1
           type == NodeType(content)
           open == PopStale(stack, idx)
           node == [type |-> type, content |-> content, lineStart |-> idx, lineEnd |-> idx,
                    parent |-> IF Len(open) > 0 THEN open[Len(open)] ELSE -1,
                    language |-> language]
       IN IF content = "" THEN BuildNodes(lines, i + 1, stack, language)
          ELSE <<node>> \o BuildNodes(lines, i + 1,
                                      IF OpensBlock(type, content) THEN Append(open, idx) ELSE open,
                                      language)

buildAST(text, language) == BuildNodes(Split(text), 1, << >>, language)

(***************************************************************************)
(* postProcessCode (part_001:1699-1785).                                   *)
(***************************************************************************)
\* line 1703
BalancedTargets == {"javascript", "typescript", "java", "cpp", "csharp", "go", "rust"}

RECURSIVE Repeat(_, _)
\* s.repeat(n)
Repeat(s, n) == IF n <= 0 THEN "" ELSE s \o Repeat(s, n - 1)

RemoveAt(lines, i) == SubSeq(lines, 1, i - 1) \o SubSeq(lines, i + 1, Len(lines))

\* the loop started at lines.length, one past the last line
RemovalStartPastEnd(lines) == Len(lines) + 1

\* the first index of the loop of line 1715, lines.length - 1 (1-based: the last line)
RemovalStart(lines) == Len(lines)

RECURSIVE RemoveClosers(_, _, _)
\* the loop of lines 1715-1720. lines[i].trim() raises a TypeError when lines[i] is
\* undefined, which is recorded in threw.
RemoveClosers(lines, i, excess) ==
  IF i < 1 \/ excess <= 0 THEN [threw |-> FALSE, lines |-> lines]
  ELSE IF i > Len(lines) THEN [threw |-> TRUE, lines |-> lines]
  ELSE IF Trim(lines[i]) = "}" THEN RemoveClosers(RemoveAt(lines, i), i - 1, excess - 1)
  ELSE RemoveClosers(lines, i - 1, excess)

\* lines 1713-1721
RemoveExtraClosers(lines, excess) ==
  LET removed == RemoveClosers(lines, RemovalStart(lines), excess)
  IN [threw |-> removed.threw, text |-> Join(removed.lines, "\n")]

\* lines 1705-1722
BalanceBraces(text) ==
  LET openBraces == Count(text, "{")
      closeBraces == Count(text, "}")
  IN IF openBraces > closeBraces
     THEN [threw |-> FALSE, text |-> text \o "\n" \o Repeat("}", openBraces - closeBraces)]
     ELSE IF closeBraces > openBraces
     THEN RemoveExtraClosers(Split(text), closeBraces - openBraces)
     ELSE [threw |-> FALSE, text |-> text]

RECURSIVE PullUpBraces(_, _)
\* processed.replace(/\n\s*{/g, ' {')
PullUpBraces(s, i) ==
  IF i > Len(s) THEN ""
  ELSE LET hits == {j \in i..Len(s) : Ch(s, j) = "\n" /\ Ch(s, SkipSet(s, j + 1, Space)) = "{"}
       IN IF hits = {} THEN From(s, i)
          ELSE Sub(s, i, Min(hits) - 1) \o " {"
               \o PullUpBraces(s, SkipSet(s, Min(hits) + 1, Space) + 1)

RECURSIVE StripLineEndSemicolons(_, _)
\* processed.replace(/;$/gm, '')
StripLineEndSemicolons(s, i) ==
  IF i > Len(s) THEN ""
  ELSE LET hits == {j \in i..Len(s) : Ch(s, j) = ";" /\ LineEnd(s, j + 1)}
       IN IF hits = {} THEN From(s, i)
          ELSE Sub(s, i, Min(hits) - 1) \o StripLineEndSemicolons(s, Min(hits) + 1)

\* lines 1751-1756
AddGoPackage(text) == IF Includes(text, "package ") THEN text ELSE "package main\n\n" \o text

\* line 1767
ClosesBlock(trimmed) == StartsWith(trimmed, "}") \/ StartsWith(trimmed, "end")

\* a brace as the only opener
OpensIndentByBrace(trimmed) == EndsWith(trimmed, "{")

\* line 1776
OpensIndent(trimmed) == EndsWith(trimmed, "{") \/ EndsWith(trimmed, ":") \/ trimmed = "do"

\* inBlock as it stands when the line is emitted (lines 1767-1769)
LevelAt(trimmed, inBlock) ==
  IF ClosesBlock(trimmed) THEN Max({0, inBlock - 1}) ELSE inBlock

RECURSIVE Reindent(_, _, _)
\* the map of lines 1761-1781
Reindent(lines, i, inBlock) ==
  IF i > Len(lines) THEN << >>
  ELSE LET trimmed == Trim(lines[i])
           level == LevelAt(trimmed, inBlock)
       IN IF trimmed = "" THEN <<"">> \o Reindent(lines, i + 1, inBlock)
          ELSE <<Repeat("  ", level) \o trimmed>>
               \o Reindent(lines, i + 1, IF OpensIndent(trimmed) THEN level + 1 ELSE level)

\* lines 1728-1756: the cleanup of the targets python, ruby and go (one of them at most)
LanguageCleanup(processed, targetLang) ==
  IF targetLang = "python" THEN StripLineEndSemicolons(processed, 1)
  ELSE IF targetLang = "ruby"
  THEN StripLineEndSemicolons(ReplaceAll(ReplaceAll(processed, "{", ""), "}", ""), 1)
  ELSE IF targetLang = "go" THEN AddGoPackage(processed)
  ELSE processed

\* lines 1724-1784 on the text whose braces were balanced
FinishPostProcess(balanced, targetLang) ==
  [threw |-> balanced.threw,
   text |-> Join(Reindent(Split(LanguageCleanup(PullUpBraces(balanced.text, 1), targetLang)),
                          1, 0),
                 "\n")]

postProcessCode(text, targetLang) ==
  IF targetLang \in BalancedTargets
  THEN FinishPostProcess(BalanceBraces(text), targetLang)
  ELSE [threw |-> FALSE,
        text |-> Join(Reindent(Split(LanguageCleanup(text, targetLang)), 1, 0), "\n")]

(***************************************************************************)
(* transformCode (part_001:1790-1875).                                     *)
(***************************************************************************)
\* the identifier taken as the caller spells it
LanguageOfVerbatim(lang) == OrElse(lang, "javascript")

\* (lang.toLowerCase() as SupportedLanguage) || 'javascript'
LanguageOf(lang) == OrElse(toLowerCase(lang), "javascript")

RECURSIVE AddAll(_, _)
\* ws.forEach((w) => allWarnings.add(w)) on an insertion-ordered Set
AddAll(set, ws) ==
  IF ws = << >> THEN set
  ELSE AddAll(IF \E i \in 1..Len(set) : set[i] = Head(ws) THEN set ELSE Append(set, Head(ws)),
              Tail(ws))

RECURSIVE LineWarnings(_, _)
LineWarnings(tls, i) ==
  IF i > Len(tls) THEN << >> ELSE tls[i].warnings \o LineWarnings(tls, i + 1)

\* the filters of lines 1846-1848: the lines that include one of the needles
CountIncluding(lines, needles) ==
  Cardinality({i \in 1..Len(lines) : \E needle \in needles : Includes(lines[i], needle)})

\* the filter of line 1869
CountTransformed(transformedLines) ==
  Cardinality({i \in 1..Len(transformedLines) : transformedLines[i].changeType # "unchanged"})

\* the fast path of lines 1798-1821
IdentityResult(text, source) ==
  LET lines == Split(text)
  IN [code |-> text,
      lines |-> [i \in 1..Len(lines) |-> Unchanged(lines[i], i - 1)],
      warnings |-> << >>,
      errors |-> << >>,
      statistics |-> [functionsDetected |-> 0, classesDetected |-> 0, importsDetected |-> 0,
                      linesTransformed |-> 0, mixedLanguageDetected |-> FALSE,
                      normalizationApplied |-> FALSE],
      ast |-> buildAST(text, source)]

\* line 1798
SameLanguage(source, target) == source = target

\* lines 1860-1874; threw tells that postProcessCode raised, and then nothing is returned
Assemble(mixedDetection, normWarnings, lines, transformedLines, cleaned, target) ==
  [threw |-> cleaned.threw,
   value |->
     [code |-> cleaned.text,
      lines |-> transformedLines,
      warnings |-> AddAll(AddAll(<< >>, normWarnings), LineWarnings(transformedLines, 1)),
      errors |-> << >>,
      statistics |->
        [functionsDetected |-> CountIncluding(lines, {"def ", "function "}),
         classesDetected |-> CountIncluding(lines, {"class "}),
         importsDetected |-> CountIncluding(lines, {"import "}),
         linesTransformed |-> CountTransformed(transformedLines),
         mixedLanguageDetected |-> mixedDetection.detected,
         normalizationApplied |-> mixedDetection.detected \/ Len(normWarnings) > 0],
      ast |-> buildAST(cleaned.text, target)]]

\* lines 1854-1855: transformedCode is joined first and cleaned next (it is bound as the
\* one element of a set, and so is every const below whose value is computed in turn)
Finish(mixedDetection, normWarnings, lines, transformedLines, target) ==
  CHOOSE r \in {Assemble(mixedDetection, normWarnings, lines, transformedLines,
                         postProcessCode(transformedCode, target), target) :
                  transformedCode \in
                    {Join([i \in 1..Len(lines) |-> transformedLines[i].transformed], "\n")}} :
    TRUE

\* lines 1831-1851
TransformLines(mixedDetection, normWarnings, lines, source, target) ==
  Finish(mixedDetection, normWarnings, lines,
         [i \in 1..Len(lines) |-> transformLine(lines[i], source, target, i - 1)], target)

\* lines 1827-1831
Normalized(mixedDetection, norm, source, target) ==
  TransformLines(mixedDetection, norm.warnings, Split(norm.normalized), source, target)

\* lines 1823-1874
PipelineResult(text, source, target) ==
  CHOOSE r \in {Normalized(mixedDetection, norm, source, target) :
                  mixedDetection \in {detectMixedLanguages(text)},
                  norm \in {normalizeCode(text)}} :
    TRUE

\* source and target are the identifiers after lines 1795-1796
Dispatch(text, source, target) ==
  IF SameLanguage(source, target)
  THEN [threw |-> FALSE, value |-> IdentityResult(text, source)]
  ELSE PipelineResult(text, source, target)

\* the warnings of the call before are still in the list the next call fills
transformCodeKeepingWarnings(text, sourceLangArg, targetLangArg) ==
  LET r == Dispatch(text, LanguageOf(sourceLangArg), LanguageOf(targetLangArg))
      last == earlier[Len(earlier)]
  IN IF earlier = << >> \/ r.threw \/ last.outcome # "returned" THEN r
     ELSE [r EXCEPT !.value.warnings = last.result.warnings \o @]

transformCode(text, sourceLangArg, targetLangArg) ==
  Dispatch(text, LanguageOf(sourceLangArg), LanguageOf(targetLangArg))

(***************************************************************************)
(* The callers' inputs.                                                    *)
(***************************************************************************)
\* part_001:902-913
SUPPORTED_LANGUAGES ==
  {"python", "javascript", "typescript", "java", "cpp", "go", "rust", "csharp", "php", "ruby"}

\* identifiers a caller may pass: the registered ones, other spellings of them, the
\* empty identifier and identifiers of no registered language
LanguageIds == SUPPORTED_LANGUAGES \cup {"Python", "JavaScript", "", "cobol", "fortran"}

\* 'auto' is what runTransformationTest (part_001:2101) passes as the source
SourceIds == {"python", "Python", "javascript", "java", "", "cobol", "auto"}

LanguagePairs == SourceIds \X LanguageIds

\* the pairs text without any construct is translated under
GarbagePairs ==
  { <<"python", "javascript">>, <<"python", "go">>, <<"python", "php">>, <<"python", "ruby">>,
    <<"python", "java">>, <<"python", "python">>, <<"javascript", "python">>,
    <<"javascript", "typescript">>, <<"java", "cpp">>, <<"", "rust">>, <<"Python", "csharp">>,
    <<"cobol", "fortran">> }

\* the examples of part_001:1884-2087, the test inputs of part_002:14-287 and
\* the scenarios of the specification
ScenarioTexts ==
  { "def greet(name):\n    print(name)",
    "def greet(name):\n    print(f\"Hello, {name}!\")",
    "if x > 5:\n    print(\"big\")\nelse:\n    print(\"small\")",
    "class Foo:",
    "class Foo:\n    def bar(self):\n        print(self)",
    "class Person:\n    def __init__(self, name, age):\n        self.name = name\n        self.age = age",
    "def f(x)\n    if x > 0 {\n        return x\n    }",
    "function add(a, b) {\n    console.log(a + b);\n}",
    "for i in range(10):\n    print(i)",
    "import os\nfrom math import sqrt",
    "if True:\n    x = False\n    y = None",
    "def greet(name) {\n    console.log(f\"Hello, {name}\")\n}",
    "if x and y or z:\n    result = not x",
    "x = 10\ny = \"hello\"\nz = [1, 2, 3]",
    "def greet(name) \n    print(\"hello\")",
    "if x > 5\n    print(\"large\")",
    "function test() \n    console.log(\"hi\")",
    "function test():\n    print(\"hello\")",
    "for i in range(10) {\n    console.log(i)\n}",
    "def f():",
    "x = 1;",
    "x }",
    "a,\n",
    "a, ",
    "print('hi')  ;;",
    "if done: print(\"ok\")",
    "for i in range(10):",
    "flag = true\nis_None = null",
    "// c\n# d\n/* e */\nelif x\r\n  y && z" }

MaxGarbageLen == 3

GarbageChars == {"x", "{", "}", "\n"}

RECURSIVE StringsOfLen(_)
StringsOfLen(n) ==
  IF n = 0 THEN {""} ELSE {s \o c : s \in StringsOfLen(n - 1), c \in GarbageChars}

\* text with no recognizable construct
GarbageTexts == UNION {StringsOfLen(n) : n \in 0..MaxGarbageLen}

\* the words a header or a call is built from
Names == {"greet", "f", "print", "None"}
ParamLists == {"", "name", "a, b", "a,  b", "x, True"}
Args == {"name", "x1", "True", "'hi'", "a and b", "f\"{x}\""}
Indents == {"    ", "\t"}

\* def NAME(PARAMS): with an indented print(ARG) body
DefPrintText(name, params, indent, arg) ==
  "def " \o name \o "(" \o params \o "):\n" \o indent \o "print(" \o arg \o ")"

DefPrintTexts ==
  {DefPrintText(n, p, i, a) : n \in Names, p \in ParamLists, i \in Indents, a \in Args}

Conditions == {"x > 5", "x", "a == b"}
Statements == {"print(\"big\")", "y = 1", "return x"}

\* if COND: / statement / else: / statement
IfElseText(cond, first, second) ==
  "if " \o cond \o ":\n    " \o first \o "\nelse:\n    " \o second

IfElseTexts == {IfElseText(c, a, b) : c \in Conditions, a \in Statements, b \in Statements}

Preambles == {"", "x = 1\n", "# c\n", "import os\n"}
DefHeaders == {"def f(x)", "def g(a, b)"}
IfLines == {"if x > 0 {", "if (x) {"}

\* a def header without its colon and a later if line that ends with '{'
HybridText(preamble, header, ifLine) ==
  preamble \o header \o "\n    " \o ifLine \o "\n        return x\n    }"

HybridTexts == {HybridText(p, h, l) : p \in Preambles, h \in DefHeaders, l \in IfLines}

Texts == ScenarioTexts \cup GarbageTexts

\* texts for calculateLineChanges: up to MaxDiffLines lines, each empty or one of two words
MaxDiffLines == 3

DiffLines == {"", "a", "b"}

RECURSIVE TextsOfLines(_)
TextsOfLines(n) ==
  IF n = 1 THEN DiffLines
  ELSE {t \o "\n" \o l : t \in TextsOfLines(n - 1), l \in DiffLines}

DiffTexts == UNION {TextsOfLines(n) : n \in 1..MaxDiffLines}

\* texts for detectLanguage: the snippets of testLanguageDetection, snippets with
\* the indicators of the other languages, and every two of them on two lines
DetectionSnippets ==
  {"def greet(): pass", "function greet() {}", "public class Test {}",
   "#include <iostream>", "package main; func main() {}",
   "fn main() { let x = 1; }", "using System; namespace App {}", "<?php echo 1;",
   "def greet\nend", "x: string", "print(x)", "console.log(x)", "  indented",
   "DEF Greet():", "x = 1", "import os", "std::cout << x"}

DetectionTexts ==
  {""} \cup DetectionSnippets \cup {a \o "\n" \o b : a, b \in DetectionSnippets}


ShapedTexts == DefPrintTexts \cup IfElseTexts \cup HybridTexts

\* single lines given to a rule
Lines ==
  { "x", "x;", "x;;", "x {", "}", "x }", "{", "", "   ", "// c", "# c", "/* c */", "  // c",
    "else:", "return x", "  y = 1  ", "};", "console.log(x)", "console.log(x);", "if (x) {" }

\* the pairs the shaped texts are translated under
ShapedPairs == {<<"python", "javascript">>, <<"Python", "JavaScript">>}

\* the calls of transformCode: a text and the pair of identifiers it is translated under
TransformCalls ==
  (ScenarioTexts \X LanguagePairs) \cup (GarbageTexts \X GarbagePairs)
    \cup (ShapedTexts \X ShapedPairs)

(***************************************************************************)
(* RuleEngine and the module's ruleEngine (part_001:973-1052). A rule is   *)
(* kept by the source text of its pattern.                                 *)
(***************************************************************************)
\* addRule(category, rule) on the rules map
addRule(rules, category, rule) ==
  IF category \in DOMAIN rules
  THEN [rules EXCEPT ![category] = Append(@, rule)]
  ELSE [c \in DOMAIN rules \cup {category} |-> IF c = category THEN <<rule>> ELSE rules[c]]

RECURSIVE AddRules(_, _)
AddRules(rules, added) ==
  IF added = << >> THEN rules
  ELSE AddRules(addRule(rules, added[1][1], added[1][2]), Tail(added))

\* new RuleEngine(): the map after initializeRules()
initializeRules ==
  AddRules([c \in {} |-> << >>],
           << <<"functions", "^(\\s*)def\\s+(\\w+)\\s*\\((.*?)\\)\\s*(?:->.*)?:">>,
              <<"classes", "^(\\s*)class\\s+(\\w+)(?:\\((.*?)\\))?\\s*:">>,
              <<"imports", "^(\\s*)(?:from\\s+(\\S+)\\s+)?import\\s+([\\w\\s,.*]+)">>,
              <<"print", "\\bprint\\s*\\((.*?)\\)">>,
              <<"variables", "^(\\s*)(\\w+)\\s*=\\s*(.+)$">>,
              <<"booleans", "\\b(True|False|None)\\b">>,
              <<"loops", "^(\\s*)for\\s+(\\w+)\\s+in\\s+(\\w+)\\s*:">>,
              <<"conditionals", "^(\\s*)if\\s+\\(?(.*?)\\)?\\s*:?$">> >>)


(***************************************************************************)
(* The state machine: a caller invokes one exported operation with its     *)
(* arguments and receives the result or the exception; the module keeps no *)
(* state of its own between the calls.                                     *)
(***************************************************************************)
Nothing == [none |-> TRUE]

\* the file MultiFileTranslator starts with (part_004:21-32); ids are numbered in the
\* order generateId made them
ExampleFile ==
  [id |-> 1, language |-> "python",
   content |-> "def greet(name):\n    print(f\"Hello, {name}!\")\n    \nif __name__ == \"__main__\":\n    greet(\"World\")",
   translatedContent |-> "", targetLanguage |-> ""]

Init ==
  /\ pc = "idle"
  /\ op = "none"
  /\ code = ""
  /\ sourceLanguage = ""
  /\ targetLanguage = ""
  /\ translatedCode = ""
  /\ outcome = "none"
  /\ result = Nothing
  /\ ruleEngine = initializeRules
  /\ earlier = << >>
  /\ response = "none"
  /\ streamed = ""
  /\ index = 0
  /\ events = << >>
  /\ controller = "none"
  /\ timer = FALSE
  /\ received = 0
  /\ lateCalls = 0
  /\ files = <<ExampleFile>>
  /\ activeFileId = ExampleFile.id
  /\ created = 1

\* a caller passes its arguments to an exported operation
Call ==
  /\ pc = "idle"
  /\ \/ /\ op' = "transformCode"
        /\ \E input \in TransformCalls :
             /\ code' = input[1]
             /\ sourceLanguage' = input[2][1]
             /\ targetLanguage' = input[2][2]
        /\ UNCHANGED translatedCode
     \/ /\ op' \in {"normalizeCode", "detectMixedLanguages"}
        /\ code' \in Texts \cup ShapedTexts
        /\ UNCHANGED <<sourceLanguage, targetLanguage, translatedCode>>
     \/ /\ op' = "detectLanguage"
        /\ code' \in DetectionTexts
        /\ UNCHANGED <<sourceLanguage, targetLanguage, translatedCode>>
     \/ /\ op' = "transformStatementEndings"
        /\ code' \in Lines
        /\ sourceLanguage' \in {"python", "javascript"}
        /\ targetLanguage' \in SUPPORTED_LANGUAGES
        /\ UNCHANGED translatedCode
     \/ /\ op' = "calculateLineChanges"
        /\ code' \in DiffTexts
        /\ translatedCode' \in DiffTexts
        /\ UNCHANGED <<sourceLanguage, targetLanguage>>
  /\ pc' = "called"
  /\ UNCHANGED <<outcome, result, ruleEngine, earlier, streamVars, fileVars>>

\* transformCode(code, sourceLang, targetLang), part_001:1790-1875
TransformCode ==
  /\ pc = "called"
  /\ op = "transformCode"
  /\ LET r == transformCode(code, sourceLanguage, targetLanguage)
     IN /\ outcome' = IF r.threw THEN "threw" ELSE "returned"
        /\ result' = IF r.threw THEN Nothing ELSE r.value
  /\ pc' = "done"
  /\ UNCHANGED <<op, code, sourceLanguage, targetLanguage, translatedCode, ruleEngine, earlier, streamVars, fileVars>>

\* normalizeCode(code), part_001:1120-1178
NormalizeCode ==
  /\ pc = "called"
  /\ op = "normalizeCode"
  /\ result' = normalizeCode(code)
  /\ outcome' = "returned"
  /\ pc' = "done"
  /\ UNCHANGED <<op, code, sourceLanguage, targetLanguage, translatedCode, ruleEngine, earlier, streamVars, fileVars>>

\* detectMixedLanguages(code), part_001:1057-1091
DetectMixedLanguages ==
  /\ pc = "called"
  /\ op = "detectMixedLanguages"
  /\ result' = detectMixedLanguages(code)
  /\ outcome' = "returned"
  /\ pc' = "done"
  /\ UNCHANGED <<op, code, sourceLanguage, targetLanguage, translatedCode, ruleEngine, earlier, streamVars, fileVars>>

\* detectLanguage(code), part_001:1183-1225
DetectLanguage ==
  /\ pc = "called"
  /\ op = "detectLanguage"
  /\ result' = detectLanguage(code)
  /\ outcome' = "returned"
  /\ pc' = "done"
  /\ UNCHANGED <<op, code, sourceLanguage, targetLanguage, translatedCode, ruleEngine, earlier, streamVars, fileVars>>

\* transformStatementEndings(line, source, target, warnings), part_001:1599-1616
TransformStatementEndings ==
  /\ pc = "called"
  /\ op = "transformStatementEndings"
  /\ result' = transformStatementEndings(code, sourceLanguage, targetLanguage)
  /\ outcome' = "returned"
  /\ pc' = "done"
  /\ UNCHANGED <<op, code, sourceLanguage, targetLanguage, translatedCode, ruleEngine, earlier, streamVars, fileVars>>

\* calculateLineChanges(sourceCode, translatedCode), part_001:1621-1637
CalculateLineChanges ==
  /\ pc = "called"
  /\ op = "calculateLineChanges"
  /\ result' = calculateLineChanges(code, translatedCode)
  /\ outcome' = "returned"
  /\ pc' = "done"
  /\ UNCHANGED <<op, code, sourceLanguage, targetLanguage, translatedCode, ruleEngine, earlier, streamVars, fileVars>>

\* the caller takes the result; the next call starts from nothing kept
Reset ==
  /\ pc = "done"
  /\ pc' = "idle"
  /\ op' = "none"
  /\ code' = ""
  /\ sourceLanguage' = ""
  /\ targetLanguage' = ""
  /\ translatedCode' = ""
  /\ outcome' = "none"
  /\ result' = Nothing
  /\ UNCHANGED <<ruleEngine, earlier, streamVars, fileVars>>

Next ==
  \/ Call
  \/ TransformCode
  \/ NormalizeCode
  \/ DetectMixedLanguages
  \/ DetectLanguage
  \/ TransformStatementEndings
  \/ CalculateLineChanges
  \/ Reset

Spec == Init /\ [][Next]_vars

(***************************************************************************)
(* A sequence of calls of transformCode by one caller, each call and its   *)
(* result kept in earlier (part_002:172-207, runTests).                    *)
(***************************************************************************)
MaxCalls == 3

SequenceCalls ==
  {"x = 1;", "function test():\n    print(\"hello\")"}
    \X {<<"python", "javascript">>, <<"javascript", "python">>, <<"python", "python">>}

CallTransformCode ==
  /\ pc = "idle"
  /\ Len(earlier) < MaxCalls
  /\ op' = "transformCode"
  /\ \E input \in SequenceCalls :
       /\ code' = input[1]
       /\ sourceLanguage' = input[2][1]
       /\ targetLanguage' = input[2][2]
  /\ pc' = "called"
  /\ UNCHANGED <<translatedCode, outcome, result, ruleEngine, earlier, streamVars, fileVars>>

\* results.push({ ... }) and the next iteration
Return ==
  /\ pc = "done"
  /\ earlier' = Append(earlier, [code |-> code, sourceLanguage |-> sourceLanguage,
                                 targetLanguage |-> targetLanguage,
                                 outcome |-> outcome, result |-> result])
  /\ pc' = "idle"
  /\ op' = "none"
  /\ code' = ""
  /\ sourceLanguage' = ""
  /\ targetLanguage' = ""
  /\ translatedCode' = ""
  /\ outcome' = "none"
  /\ result' = Nothing
  /\ UNCHANGED <<ruleEngine, streamVars, fileVars>>

SequenceNext ==
  \/ CallTransformCode
  \/ TransformCode
  \/ Return

SequenceSpec == Init /\ [][SequenceNext]_vars

(***************************************************************************)
(* POST /api/translate (src/app/api/translate/route.ts): the handler, the  *)
(* chunk timer of its stream, and the client that reads or cancels.        *)
(***************************************************************************)
\* const chunkSize = 50
chunkSize == 50

\* s.slice(from, to) with 0-based from and exclusive to, as in the source
slice(s, from, to) == Sub(s, from + 1, Min({to, Len(s)}))

\* a chunk that runs one character into the next one
ChunkOverlapping(text, at) == slice(text, at, at + chunkSize + 1)

\* result.code.slice(index, index + chunkSize)
Chunk(text, at) == slice(text, at, at + chunkSize)

\* the object of lines 36-40 (index is already advanced) and the one of line 47
DeltaEvent(text, at) ==
  [type |-> "delta", delta |-> Chunk(text, at), fullText |-> slice(text, 0, at + chunkSize)]

DoneEvent == [type |-> "done"]

\* the request bodies: codes whose result is shorter than a chunk, a chunk long, and
\* several chunks long, a source to detect, and bodies with a field missing
StreamRequests ==
  { [code |-> Repeat("let a = 1\n", n) \o tail, sourceLanguage |-> "javascript",
     targetLanguage |-> "javascript"] : n \in {0, 1, 5, 10, 12, 16}, tail \in {"", "x"} }
  \cup { [code |-> "def greet(name):\n    print(name)", sourceLanguage |-> source,
          targetLanguage |-> target] : source \in {"auto", "", "python"},
                                      target \in {"javascript", ""} }

\* lines 14-18
DetectedSource(request) ==
  IF request.sourceLanguage = "" \/ request.sourceLanguage = "auto"
  THEN detectLanguage(request.code) ELSE request.sourceLanguage

\* POST up to the return of the Response: the stream is constructed, start() runs and
\* makes the first call of sendChunk (lines 4-57)
Post ==
  /\ response = "none"
  /\ \E request \in StreamRequests :
       IF request.code = "" \/ request.targetLanguage = ""
       THEN /\ response' = "400"
            /\ UNCHANGED <<streamed, index, events, controller, timer>>
       ELSE LET r == transformCode(request.code, DetectedSource(request), request.targetLanguage)
            IN IF r.threw
               THEN /\ response' = "500"
                    /\ UNCHANGED <<streamed, index, events, controller, timer>>
               ELSE /\ response' = "stream"
                    /\ streamed' = r.value.code
                    /\ IF 0 < Len(r.value.code)
                       THEN /\ events' = <<DeltaEvent(r.value.code, 0)>>
                            /\ index' = chunkSize
                            /\ timer' = TRUE
                            /\ controller' = "readable"
                       ELSE /\ events' = <<DoneEvent>>
                            /\ index' = 0
                            /\ timer' = FALSE
                            /\ controller' = "closed"
  /\ UNCHANGED <<received, lateCalls, callVars, fileVars>>

\* the timer set by setTimeout(sendChunk, 10) fires: sendChunk (lines 31-50). On a
\* stream that is no longer readable controller.enqueue throws, after index was
\* advanced and before the next timer is set
SendChunk ==
  /\ timer
  /\ IF controller = "readable"
     THEN /\ IF index < Len(streamed)
             THEN /\ events' = Append(events, DeltaEvent(streamed, index))
                  /\ index' = index + chunkSize
                  /\ timer' = TRUE
                  /\ UNCHANGED controller
             ELSE /\ events' = Append(events, DoneEvent)
                  /\ controller' = "closed"
                  /\ timer' = FALSE
                  /\ UNCHANGED index
          /\ UNCHANGED lateCalls
     ELSE /\ lateCalls' = lateCalls + 1
          /\ index' = IF index < Len(streamed) THEN index + chunkSize ELSE index
          /\ timer' = FALSE
          /\ UNCHANGED <<events, controller>>
  /\ UNCHANGED <<response, streamed, received, callVars, fileVars>>

\* the client reads the next event of the queue
Read ==
  /\ response = "stream"
  /\ controller \in {"readable", "closed"}
  /\ received < Len(events)
  /\ received' = received + 1
  /\ UNCHANGED <<response, streamed, index, events, controller, timer, lateCalls,
                 callVars, fileVars>>

\* the client goes away: the stream is cancelled. The constructor of line 24 is given
\* no cancel(), so the timer stays set
Cancel ==
  /\ response = "stream"
  /\ controller = "readable"
  /\ controller' = "cancelled"
  /\ UNCHANGED <<response, streamed, index, events, timer, received, lateCalls,
                 callVars, fileVars>>

\* a client that reads the stream to its end
DeliveryNext ==
  \/ Post
  \/ SendChunk
  \/ Read

DeliverySpec == Init /\ [][DeliveryNext]_vars /\ WF_vars(SendChunk)

\* a client that may cancel
StreamNext ==
  \/ Post
  \/ SendChunk
  \/ Read
  \/ Cancel

StreamSpec == Init /\ [][StreamNext]_vars

(***************************************************************************)
(* MultiFileTranslator (part_004): the file list and the active file.      *)
(***************************************************************************)
\* the number of ids generateId is asked for in a run
MaxFiles == 4

\* the values of the target selector (line 35 starts it at 'javascript')
FileTargets == {"javascript", "go"}

\* files.find((f) => f.id === id) as the set of matching positions
PositionsOf(list, id) == {i \in 1..Len(list) : list[i].id = id}

\* const activeFile = files.find((f) => f.id === activeFileId) || files[0]
activeFile ==
  IF PositionsOf(files, activeFileId) # {}
  THEN files[Min(PositionsOf(files, activeFileId))] ELSE files[1]

\* prev.filter((f) => f.id !== id)
WithoutFile(list, id) == SelectSeq(list, LAMBDA f : f.id # id)

\* the file the handler makes active after removing id: files[0] of the list the
\* handler was rendered with (line 92)
ActiveAfterRemove(list, id) == list[1].id

\* handleAddFile (lines 76-85); generateId is taken to return a fresh id
handleAddFile ==
  /\ created < MaxFiles
  /\ LET newFile == [id |-> created + 1, language |-> activeFile.language, content |-> "",
                     translatedContent |-> "", targetLanguage |-> ""]
     IN /\ files' = Append(files, newFile)
        /\ activeFileId' = newFile.id
  /\ created' = created + 1
  /\ UNCHANGED <<callVars, streamVars>>

\* handleRemoveFile (lines 88-94) for the remove button of a listed file
handleRemoveFile ==
  \E i \in 1..Len(files) :
    LET id == files[i].id
    IN /\ IF Len(files) = 1
          THEN UNCHANGED <<files, activeFileId>>
          ELSE /\ files' = WithoutFile(files, id)
               /\ activeFileId' = IF activeFileId = id THEN ActiveAfterRemove(files, id)
                                                       ELSE activeFileId
       /\ UNCHANGED <<created, callVars, streamVars>>

\* onFileSelect={setActiveFileId} (line 161) for a listed file
SelectFile ==
  /\ \E i \in 1..Len(files) : activeFileId' = files[i].id
  /\ UNCHANGED <<files, created, callVars, streamVars>>

\* handleTranslate (lines 43-58)
handleTranslate ==
  /\ \E target \in FileTargets :
       LET r == transformCode(activeFile.content, detectLanguage(activeFile.content), target)
       IN /\ ~r.threw
          /\ files' = [i \in 1..Len(files) |->
                         IF files[i].id = activeFileId
                         THEN [files[i] EXCEPT !.translatedContent = r.value.code,
                                               !.targetLanguage = target]
                         ELSE files[i]]
  /\ UNCHANGED <<activeFileId, created, callVars, streamVars>>

FilesNext ==
  \/ handleAddFile
  \/ handleRemoveFile
  \/ SelectFile
  \/ handleTranslate

FilesSpec == Init /\ [][FilesNext]_vars

(***************************************************************************)
(* Properties.                                                             *)
(***************************************************************************)
\* a call of transformCode has returned its result
Translated == pc = "done" /\ op = "transformCode" /\ outcome = "returned"

\* the pair goes through the pipeline of lines 1823-1874 from source to target
Translates(source, target) ==
  Translated /\ LanguageOf(sourceLanguage) = source /\ LanguageOf(targetLanguage) = target

\* C1: when source and target are the same identifier up to letter case, transformCode
\* returns the input as code, no warning, no error, linesTransformed = 0, both flags
\* false, and one entry per input line whose transformed text is its original text.
C1_IdentityFastPath ==
  (pc = "done" /\ op = "transformCode"
     /\ toLowerCase(sourceLanguage) = toLowerCase(targetLanguage))
  => /\ outcome = "returned"
     /\ result.code = code
     /\ result.warnings = << >>
     /\ result.errors = << >>
     /\ result.statistics.linesTransformed = 0
     /\ ~result.statistics.mixedLanguageDetected
     /\ ~result.statistics.normalizationApplied
     /\ Len(result.lines) = Len(Split(code))
     /\ \A i \in DOMAIN result.lines :
          /\ result.lines[i].original = Split(code)[i]
          /\ result.lines[i].transformed = result.lines[i].original

C1_Witness ==
  /\ Translated
  /\ sourceLanguage = "Python"
  /\ targetLanguage = "python"
  /\ code = "def f(x)\n    if x > 0 {\n        return x\n    }"
  /\ result.code = code
  /\ Len(result.lines) = 4

ResultFields == {"code", "lines", "warnings", "errors", "statistics", "ast"}

StatisticsFields ==
  {"functionsDetected", "classesDetected", "importsDetected", "linesTransformed",
   "mixedLanguageDetected", "normalizationApplied"}

\* C2: every call of transformCode, whatever the text and the two identifiers, returns
\* (it does not raise) and returns a result that has all of code, lines, warnings,
\* errors, statistics and ast.
C2_NoThrowOnGarbage ==
  (pc = "done" /\ op = "transformCode")
  => /\ outcome = "returned"
     /\ DOMAIN result = ResultFields
     /\ DOMAIN result.statistics = StatisticsFields
     /\ Len(result.lines) >= 1
     /\ \A i \in DOMAIN result.lines : result.lines[i].lineNumber = i - 1

C2_Witness ==
  /\ Translated
  /\ sourceLanguage = "javascript"
  /\ targetLanguage = "typescript"
  /\ code = "}\nx"
  /\ result.code = "x"

\* a pair for which the registry holds no rule set: the two languages differ and one of
\* them is not a registered language
UnsupportedPair(source, target) ==
  source # target /\ (source \notin SUPPORTED_LANGUAGES \/ target \notin SUPPORTED_LANGUAGES)

\* C3: for an unsupported pair the returned code is one comment line followed by the
\* original text, and the warnings and errors are not both empty.
C3_UnsupportedPairReported ==
  (Translated /\ UnsupportedPair(LanguageOf(sourceLanguage), LanguageOf(targetLanguage)))
  => /\ \E k \in 1..Len(result.code) :
          /\ Ch(result.code, k) = "\n"
          /\ IsCommentLine(Sub(result.code, 1, k - 1))
          /\ From(result.code, k + 1) = code
     /\ Len(result.errors) + Len(result.warnings) > 0

\* C4: normalizing the normalized text again changes nothing.
C4_IdempotentNormalization ==
  (pc = "done" /\ op = "normalizeCode")
  => normalizeCode(result.normalized).normalized = result.normalized

\* the entry of a class-definition line for which a struct-style declaration was emitted
StructForClass(entry) ==
  StartsWith(Trim(entry.original), "class ") /\ Includes(entry.transformed, "struct ")

\* C5: when a class-definition line was rewritten to a struct-style declaration, some
\* warning of the result states the substitution.
C5_WarningOnSubstitution ==
  (Translated /\ \E i \in DOMAIN result.lines : StructForClass(result.lines[i]))
  => \E w \in DOMAIN result.warnings : Includes(result.warnings[w], "struct")

\* the targets that delimit blocks by braces
BraceTargets == {"javascript", "typescript", "java", "cpp", "csharp", "go", "rust", "php"}

\* C6: code translated to a brace-delimited target holds as many '{' as '}'.
C6_BraceBalance ==
  (Translated /\ LanguageOf(targetLanguage) \in BraceTargets
     /\ LanguageOf(sourceLanguage) # LanguageOf(targetLanguage))
  => Count(result.code, "{") = Count(result.code, "}")

\* function NAME(PARAMS) { / console.log(ARG); indented by two spaces / }
DefPrintExpected(name, params, arg) ==
  "function " \o name \o "(" \o params \o ") {\n  console.log(" \o arg \o ");\n}"

RewrittenWords == {"True", "False", "None", "and", "or", "not"}

\* a word of letters, digits and underscores that no rule rewrites
PlainWord(w) ==
  w # "" /\ (\A k \in 1..Len(w) : Ch(w, k) \in Word) /\ w \notin RewrittenWords

RECURSIVE PlainList(_)
\* plain words separated by a comma and one space
PlainList(params) ==
  LET k == IndexOfFrom(params, ", ", 1)
  IN IF k = 0 THEN PlainWord(params)
     ELSE PlainWord(Sub(params, 1, k - 1)) /\ PlainList(From(params, k + 2))

StatementLine(line) == ~EndsWith(Trim(line), "{") /\ ~EndsWith(Trim(line), "}")

\* C8: if COND: / statement / else: / statement becomes a two-branch if/else in brace
\* form: the first line is if (COND) { with COND as written, a line is } else {, every
\* statement line ends with ';', and the braces balance.
C8_IfElseBraceForm ==
  \A cond \in Conditions, first \in Statements, second \in Statements :
    (Translates("python", "javascript") /\ code = IfElseText(cond, first, second))
    => LET out == Split(result.code)
       IN /\ out[1] = "if (" \o cond \o ") {"
          /\ \E k \in DOMAIN out : Trim(out[k]) = "} else {"
          /\ \A k \in DOMAIN out : StatementLine(out[k]) => EndsWith(out[k], ";")
          /\ Count(result.code, "{") = Count(result.code, "}")

\* C9: for a text that holds a def header without its colon and, below it, an if line
\* that ends with '{', detectMixedLanguages reports detected = true, and normalizeCode
\* returns the header with ':' appended and the if line as it was.
C9_HybridInput ==
  \A preamble \in Preambles, header \in DefHeaders, ifLine \in IfLines :
    (pc = "done" /\ code = HybridText(preamble, header, ifLine))
    => /\ op = "detectMixedLanguages" => result.detected
       /\ op = "normalizeCode" =>
            LET out == Split(result.normalized)
            IN \E k \in 1..(Len(out) - 1) :
                 out[k] = header \o ":" /\ out[k + 1] = "    " \o ifLine

\* C10: for a target that requires terminators the statement-ending rule changes a line
\* only by appending ';', and only when the line is neither empty nor a comment and
\* ends in none of '{', '}' and ';'.
C10_StatementEndings ==
  (pc = "done" /\ op = "transformStatementEndings" /\ needsSemicolon(targetLanguage)
     /\ result # code)
  => /\ result = TrimEnd(code) \o ";"
     /\ Trim(code) # ""
     /\ ~IsCommentLine(code)
     /\ ~EndsWith(Trim(code), "{")
     /\ ~EndsWith(Trim(code), "}")
     /\ ~EndsWith(Trim(code), ";")

\* the languages detectMixedLanguages scores, in the order their keys enter the
\* indicators object
FingerprintLanguages == <<"python", "javascript", "java">>

FingerprintScore(lang, text) ==
  CASE lang = "python" -> pythonIndicators(text)
    [] lang = "javascript" -> jsIndicators(text)
    [] lang = "java" -> javaIndicators(text)

\* the position of a language in FingerprintLanguages
FingerprintRank(lang) == CHOOSE k \in 1..Len(FingerprintLanguages) : FingerprintLanguages[k] = lang

Scored(text) == {k \in 1..Len(FingerprintLanguages) : FingerprintScore(FingerprintLanguages[k], text) > 0}

\* C11: a language scores at most one per indicator of its fingerprint; detected holds
\* iff more than one language has a nonzero score; languages lists exactly the languages
\* with a nonzero score, by descending score and, for equal scores, in registry order;
\* confidence lies in [0,1] (in hundredths) and is lower when detected holds.
C11_MixedDetection ==
  (pc = "done" /\ op = "detectMixedLanguages")
  => /\ FingerprintScore("python", code) \in 0..5
     /\ FingerprintScore("javascript", code) \in 0..5
     /\ FingerprintScore("java", code) \in 0..3
     /\ result.detected <=> Cardinality(Scored(code)) > 1
     /\ Len(result.languages) = Cardinality(Scored(code))
     /\ {result.languages[i] : i \in 1..Len(result.languages)}
          = {FingerprintLanguages[k] : k \in Scored(code)}
     /\ \A i, j \in 1..Len(result.languages) :
          i < j =>
            LET a == result.languages[i]
                b == result.languages[j]
            IN \/ FingerprintScore(a, code) > FingerprintScore(b, code)
               \/ /\ FingerprintScore(a, code) = FingerprintScore(b, code)
                  /\ FingerprintRank(a) < FingerprintRank(b)
     /\ result.confidence \in 0..100
     /\ result.confidence < 100 <=> result.detected

\* two languages with the same nonzero score were detected
C11_Witness ==
  /\ pc = "done"
  /\ op = "detectMixedLanguages"
  /\ result.detected
  /\ \E i \in 1..(Len(result.languages) - 1) :
       FingerprintScore(result.languages[i], code)
         = FingerprintScore(result.languages[i + 1], code)

(***************************************************************************)
(* C12.                                                                    *)
(***************************************************************************)
LanguagePriority ==
  <<"python", "javascript", "typescript", "java", "cpp", "go", "rust", "csharp", "php", "ruby">>

PriorityRank(lang) == CHOOSE i \in 1..Len(LanguagePriority) : LanguagePriority[i] = lang

\* the weighted indicator score of lang in text, 0 when none of its indicators occurs
IndicatorScore(lang, text) ==
  LET scores == languageScores(toLowerCase(text))
      at == {i \in 1..Len(scores) : scores[i].lang = lang}
  IN IF at = {} THEN 0 ELSE scores[CHOOSE i \in at : TRUE].count

DetectionDone == pc = "done" /\ op = "detectLanguage"

DetectionTestExpectations ==
  [c \in {"def greet(): pass", "function greet() {}", "public class Test {}",
          "#include <iostream>", "package main; func main() {}"} |->
     CASE c = "def greet(): pass" -> "python"
       [] c = "function greet() {}" -> "javascript"
       [] c = "public class Test {}" -> "java"
       [] c = "#include <iostream>" -> "cpp"
       [] OTHER -> "go"]

\* C12: detectLanguage returns one of the ten supported languages: the one with the
\* highest weighted indicator score, the earliest in the order python, javascript,
\* typescript, java, cpp, go, rust, csharp, php, ruby among equal scores, and
\* 'javascript' when no indicator occurs; a text with the indicators of one language
\* only, such as each snippet of the detection tests, is detected as that language.
C12_DetectLanguage ==
  DetectionDone =>
    LET scored == {l \in SUPPORTED_LANGUAGES : IndicatorScore(l, code) > 0}
    IN /\ result \in SUPPORTED_LANGUAGES
       /\ scored = {} => result = "javascript"
       /\ scored # {} =>
            /\ result \in scored
            /\ \A l \in scored :
                 \/ IndicatorScore(l, code) < IndicatorScore(result, code)
                 \/ /\ IndicatorScore(l, code) = IndicatorScore(result, code)
                    /\ PriorityRank(result) <= PriorityRank(l)
       /\ Cardinality(scored) = 1 => result \in scored
       /\ code \in DOMAIN DetectionTestExpectations =>
            /\ result = DetectionTestExpectations[code]
            /\ scored = {result}

\* a tie for the highest score between two languages, decided for a language that is
\* not the default
C12_Witness ==
  /\ DetectionDone
  /\ result # "javascript"
  /\ \E l \in SUPPORTED_LANGUAGES \ {result} :
       /\ IndicatorScore(l, code) = IndicatorScore(result, code)
       /\ PriorityRank(result) < PriorityRank(l)


(***************************************************************************)
(* C13.                                                                    *)
(***************************************************************************)
SameArguments(a, b) ==
  /\ a.code = b.code
  /\ a.sourceLanguage = b.sourceLanguage
  /\ a.targetLanguage = b.targetLanguage

SameResult(a, b) == a.outcome = b.outcome /\ a.result = b.result

CurrentCall ==
  [code |-> code, sourceLanguage |-> sourceLanguage, targetLanguage |-> targetLanguage,
   outcome |-> outcome, result |-> result]

Piped ==
  Translated /\ ~SameLanguage(LanguageOf(sourceLanguage), LanguageOf(targetLanguage))

\* C14: for a translated text statistics.normalizationApplied is true exactly when
\* normalizeCode(code).normalized differs from code, also when no mixed-language
\* warning was raised.
C14_NormalizationApplied ==
  Piped =>
    (result.statistics.normalizationApplied <=> normalizeCode(code).normalized # code)

(***************************************************************************)
(* C15.                                                                    *)
(***************************************************************************)
\* the identifier the claim lets a call run under: a registered language in any letter
\* case as it is, anything else as javascript
Recognized(id) == IF toLowerCase(id) \in SUPPORTED_LANGUAGES THEN toLowerCase(id) ELSE "javascript"

\* C15: a call of transformCode with an identifier that is no registered language gives
\* what the call with 'javascript' in its place gives, for the source and for the
\* target, and identifiers that differ in letter case only give the same result.
C15_UnrecognizedIsDefault ==
  (pc = "done" /\ op = "transformCode") =>
    LET r == transformCode(code, Recognized(sourceLanguage), Recognized(targetLanguage))
    IN /\ outcome = IF r.threw THEN "threw" ELSE "returned"
       /\ ~r.threw => result = r.value

(***************************************************************************)
(* C16.                                                                    *)
(***************************************************************************)
\* C16: a call of transformCode with the source 'auto' gives what the call with the
\* source detectLanguage(code) gives, for every code and target.
C16_AutoDetects ==
  (pc = "done" /\ op = "transformCode" /\ sourceLanguage = "auto") =>
    LET r == transformCode(code, detectLanguage(code), targetLanguage)
    IN /\ outcome = IF r.threw THEN "threw" ELSE "returned"
       /\ ~r.threw => result = r.value

(***************************************************************************)
(* C17.                                                                    *)
(***************************************************************************)
\* C17: result.lines has exactly one entry per line of the input code, in the order of
\* the input, the entry's lineNumber is its index and its original is that input
\* line; normalization merges, drops and adds no line.
C17_OneEntryPerInputLine ==
  Translated =>
    LET inputLines == Split(code)
    IN /\ Len(result.lines) = Len(inputLines)
       /\ \A i \in 1..Len(result.lines) :
            /\ result.lines[i].lineNumber = i - 1
            /\ i <= Len(inputLines) => result.lines[i].original = inputLines[i]

(***************************************************************************)
(* C18.                                                                    *)
(***************************************************************************)
EntriesOfType(lines, types) == {i \in 1..Len(lines) : lines[i].changeType \in types}

\* C18: statistics.linesTransformed is the number of entries of result.lines whose
\* changeType is not 'unchanged'; an entry is 'warning' iff its line raised a warning,
\* 'changed' iff it raised none and its transformed text differs from its original,
\* and 'unchanged' otherwise; so linesTransformed lies between 0 and the number of
\* entries.
C18_LinesTransformed ==
  Translated =>
    /\ result.statistics.linesTransformed
         = Cardinality(EntriesOfType(result.lines, {"warning", "changed"}))
    /\ result.statistics.linesTransformed \in 0..Len(result.lines)
    /\ \A i \in 1..Len(result.lines) :
         LET entry == result.lines[i]
         IN /\ entry.changeType \in {"warning", "changed", "unchanged"}
            /\ entry.changeType = "warning" <=> entry.warnings # << >>
            /\ entry.changeType = "changed"
                 <=> (entry.warnings = << >> /\ entry.transformed # entry.original)
            /\ entry.changeType = "unchanged"
                 <=> (entry.warnings = << >> /\ entry.transformed = entry.original)

\* a result with an entry of each classification
C18_Witness ==
  /\ Translated
  /\ EntriesOfType(result.lines, {"changed"}) # {}
  /\ EntriesOfType(result.lines, {"unchanged"}) # {}
  /\ EntriesOfType(result.lines, {"warning"}) # {}
  /\ result.statistics.linesTransformed \in 2..(Len(result.lines) - 1)

(***************************************************************************)
(* C19.                                                                    *)
(***************************************************************************)
\* line i of a text, the empty line past its end
LineAt(lines, i) == IF i <= Len(lines) THEN lines[i] ELSE ""

\* C19: calculateLineChanges returns one entry for every line index up to the longer
\* of the two texts: 'unchanged' when both lines are equal, 'added' when only the
\* translated text has a non-empty line at the index, 'removed' when only the source
\* has one, 'changed' otherwise.
C19_LineChanges ==
  (pc = "done" /\ op = "calculateLineChanges") =>
    LET sourceLines == Split(code)
        translatedLines == Split(translatedCode)
    IN /\ Len(result) = Max({Len(sourceLines), Len(translatedLines)})
       /\ \A i \in 1..Len(result) :
            LET source == LineAt(sourceLines, i)
                translated == LineAt(translatedLines, i)
            IN result[i].type =
                 IF source = translated THEN "unchanged"
                 ELSE IF source = "" THEN "added"
                 ELSE IF translated = "" THEN "removed"
                 ELSE "changed"

(***************************************************************************)
(* C20.                                                                    *)
(***************************************************************************)
\* what the rule of a category makes of a line
RuleOutput(category, line, source, target) ==
  CASE category = "function" -> transformFunctionDef(line, source, target)
    [] category = "class" -> transformClassDef(line, source, target).line
    [] category = "conditional" -> transformConditionals(line, source, target)
    [] category = "loop" -> transformLoops(line, source, target)
    [] category = "print" -> transformPrintStatement(line, source, target)
    [] category = "import" -> transformImportStatement(line, source, target)
    [] category = "variable" -> transformVariableDeclaration(line, source, target)
    [] category = "boolean" -> transformBooleanConstants(line, source, target)
    [] category = "operator" -> transformOperators(line, source, target)
    [] category = "ending" -> transformStatementEndings(line, source, target)

\* the rules of the categories of order one after the other, each on the output of the
\* one before
RECURSIVE RulesInOrder(_, _, _, _)
RulesInOrder(order, line, source, target) ==
  IF order = << >> THEN line
  ELSE CHOOSE r \in {RulesInOrder(Tail(order), out, source, target) :
                      out \in {RuleOutput(Head(order), line, source, target)}} : TRUE

ClaimedOrder ==
  <<"function", "class", "conditional", "loop", "print", "import", "variable", "boolean",
    "operator", "ending">>

SequenceOrder ==
  <<"function", "class", "import", "print", "conditional", "loop", "variable", "boolean",
    "operator", "ending">>

\* every entry of result.lines whose line was not skipped holds what the rules make of
\* its line in the given order
EntriesFollow(order) ==
  \A i \in 1..Len(result.lines) :
    ~Skipped(result.lines[i].original) =>
      result.lines[i].transformed
        = RulesInOrder(order, result.lines[i].original,
                       LanguageOf(sourceLanguage), LanguageOf(targetLanguage))

\* the statement of the specification: the order function, class, conditional, loop,
\* print, import, variable, boolean/null, operator, statement-ending
C20_ClaimedRuleOrder == Piped => EntriesFollow(ClaimedOrder)

\* C20: for every line that is not skipped the ten rewrite categories run in the fixed
\* order function, class, import, print, conditional, loop, variable, boolean/null,
\* operator, statement-ending, each one on the output of the one before.
C20_RuleOrder == Piped => EntriesFollow(SequenceOrder)

\* a line the two orders make different texts of
C20_Witness ==
  /\ Piped
  /\ \E i \in 1..Len(result.lines) :
       /\ ~Skipped(result.lines[i].original)
       /\ RulesInOrder(ClaimedOrder, result.lines[i].original,
                       LanguageOf(sourceLanguage), LanguageOf(targetLanguage))
            # result.lines[i].transformed

(***************************************************************************)
(* C21.                                                                    *)
(***************************************************************************)
BraceLanguages ==
  {"javascript", "typescript", "java", "cpp", "go", "rust", "csharp", "php"}

\* a line of the form for VAR in range(...)
IsRangeLoop(line) == StartsWith(Trim(line), "for ") /\ Includes(line, " in range(")

\* C21: for a Python line for i in range(n): and a brace-language target the loop rule
\* emits a counted loop, for JavaScript for (let i = 0; i < n; i++) {, never a
\* generic iterator form and never the header in its Python form.
C21_RangeLoops ==
  (Piped /\ LanguageOf(sourceLanguage) = "python"
     /\ LanguageOf(targetLanguage) \in BraceLanguages)
  => \A i \in 1..Len(result.lines) :
       IsRangeLoop(result.lines[i].original) =>
         /\ ~Includes(result.lines[i].transformed, " in range(")
         /\ (code = "for i in range(10):" /\ LanguageOf(targetLanguage) = "javascript")
              => result.lines[i].transformed = "for (let i = 0; i < 10; i++) {"

(***************************************************************************)
(* C22.                                                                    *)
(***************************************************************************)
\* w occurs in line as a whole token
HasToken(line, w) == ReplaceWord(line, 1, w, "") # line

\* C22: the boolean/null rule replaces the literals of the source language by those of
\* the target language, as whole tokens only: from Python no token True, False or
\* None is left and an identifier that contains such a word is kept; to Python no
\* token true, false or null is left.
C22_BooleanLiterals ==
  Piped =>
    \A i \in 1..Len(result.lines) :
      ~Skipped(result.lines[i].original) =>
        /\ LanguageOf(sourceLanguage) = "python" =>
             /\ \A w \in {"True", "False", "None"} : ~HasToken(result.lines[i].transformed, w)
             /\ transformBooleanConstants("TrueValue is_None", "python",
                                          LanguageOf(targetLanguage)) = "TrueValue is_None"
        /\ LanguageOf(targetLanguage) = "python" =>
             \A w \in {"true", "false", "null"} : ~HasToken(result.lines[i].transformed, w)

(***************************************************************************)
(* C23.                                                                    *)
(***************************************************************************)
WellFormedConditional == "if x > 5:\n    print(\"big\")\nelse:\n    print(\"small\")"

\* C23: on a line at most one of the missing-colon and the missing-brace correction
\* appends its token, so normalizeCode makes no line end with ':' and an appended
\* ' {', and a header that ends with ':' and is followed by its body line is left as
\* it is.
C23_BlockOpeners ==
  (pc = "done" /\ op = "normalizeCode") =>
    LET inputLines == Split(code)
        lines == Split(result.normalized)
    IN /\ \A i \in 1..Len(lines) :
            EndsWith(lines[i], ": {") => (i <= Len(inputLines) /\ inputLines[i] = lines[i])
       /\ code = WellFormedConditional => result.normalized = code

(***************************************************************************)
(* C24.                                                                    *)
(***************************************************************************)
\* the nesting level each line is emitted at: it starts at level, goes down (not below
\* 0) before a line that starts with one of closers, and up after a line that ends
\* with one of openers or is one of wholes; a blank line leaves it
RECURSIVE LevelsFrom(_, _, _, _, _, _)
LevelsFrom(lines, i, level, closers, openers, wholes) ==
  IF i > Len(lines) THEN << >>
  ELSE LET trimmed == Trim(lines[i])
           at == IF trimmed # "" /\ (\E c \in closers : StartsWith(trimmed, c))
                 THEN Max({0, level - 1}) ELSE level
           after == IF trimmed # "" /\ ((\E o \in openers : EndsWith(trimmed, o))
                                        \/ trimmed \in wholes)
                    THEN at + 1 ELSE at
       IN <<at>> \o LevelsFrom(lines, i + 1, after, closers, openers, wholes)

\* every non-blank line is its content behind two spaces per level
IndentedBy(lines, levels) ==
  \A i \in 1..Len(lines) :
    Trim(lines[i]) # "" =>
      /\ levels[i] >= 0
      /\ lines[i] = Repeat("  ", levels[i]) \o Trim(lines[i])

\* the delimiters of the target language itself
TargetClosers(target) ==
  IF target \in BraceLanguages THEN {"}"} ELSE IF target = "ruby" THEN {"end"} ELSE {}

TargetOpeners(target) ==
  IF target \in BraceLanguages THEN {"{"} ELSE IF target = "python" THEN {":"} ELSE {}

TargetWholes(target) == IF target = "ruby" THEN {"do"} ELSE {}

PipedToSupported == Piped /\ LanguageOf(targetLanguage) \in SUPPORTED_LANGUAGES

\* the statement of the specification: the level follows the block-closer and the
\* block-opener of the target language
C24_TargetDelimiters ==
  PipedToSupported =>
    LET lines == Split(result.code)
        target == LanguageOf(targetLanguage)
    IN IndentedBy(lines, LevelsFrom(lines, 1, 0, TargetClosers(target),
                                    TargetOpeners(target), TargetWholes(target)))

\* C24: postProcessCode emits every non-blank line behind two spaces times a nesting
\* level that starts at 0 and never goes below 0; for every target the level is
\* decremented before a line that starts with '}' or 'end' and incremented after a
\* line that ends with '{' or ':' or is 'do', and no other line changes it.
C24_Indentation ==
  Piped =>
    LET lines == Split(result.code)
    IN IndentedBy(lines, LevelsFrom(lines, 1, 0, {"}", "end"}, {"{", ":"}, {"do"}))

\* a result with a line at level 2, a line that starts with a closer at level 0 and a
\* line behind it
C24_Witness ==
  /\ Piped
  /\ LET lines == Split(result.code)
         levels == LevelsFrom(lines, 1, 0, {"}", "end"}, {"{", ":"}, {"do"})
     IN /\ \E i \in 1..Len(lines) : levels[i] = 2 /\ Trim(lines[i]) # ""
        /\ \E i \in 2..Len(lines) : StartsWith(lines[i], "}") /\ levels[i] = 0

(***************************************************************************)
(* C25.                                                                    *)
(***************************************************************************)
\* C25: for the targets without brace delimiters, Python and Ruby, the code returned
\* by transformCode holds no '{' and no '}'.
C25_BracesStripped ==
  (Piped /\ LanguageOf(targetLanguage) \in {"python", "ruby"}) =>
    (~Includes(result.code, "{") /\ ~Includes(result.code, "}"))

(***************************************************************************)
(* C26.                                                                    *)
(***************************************************************************)
\* the text result.ast was built from: the input on the identity path, else the code
AstText == IF Piped THEN result.code ELSE code

\* the number of white-space characters a line starts with
IndentOf(line) == SkipSet(line, 1, Space) - 1

\* the indices in ast of the nodes of line idx (0-based as lineStart)
NodesOfLine(ast, idx) == {n \in 1..Len(ast) : ast[n].lineStart = idx}

\* the lines above the node of line idx in the tree: its parent, the parent's parent ...
RECURSIVE AncestorLines(_, _)
AncestorLines(ast, idx) ==
  LET parents == {ast[n].parent : n \in NodesOfLine(ast, idx)} \ {-1}
  IN parents \cup UNION {AncestorLines(ast, p) : p \in parents}

\* line j (1-based) lies in the body of the block-opening line h: it is indented deeper
\* than h, and so is every non-blank line between the two
InBodyOf(lines, h, j) ==
  /\ h < j
  /\ Trim(lines[h]) # "" /\ Trim(lines[j]) # ""
  /\ OpensBlock(NodeType(Trim(lines[h])), Trim(lines[h]))
  /\ \A k \in (h + 1)..j : Trim(lines[k]) # "" => IndentOf(lines[k]) > IndentOf(lines[h])

\* C26: buildAST makes exactly one node per non-blank line and nests by indentation:
\* every line in the body of a block-opening line is among the descendants of that
\* line's node, a line indented the same or less than a block header is not its
\* child, and every child lies after its parent.
C26_AstNesting ==
  Translated =>
    LET lines == Split(AstText)
        ast == result.ast
    IN /\ \A j \in 1..Len(lines) :
            Cardinality(NodesOfLine(ast, j - 1)) = IF Trim(lines[j]) = "" THEN 0 ELSE 1
       /\ Len(ast) = Cardinality({j \in 1..Len(lines) : Trim(lines[j]) # ""})
       /\ \A n \in 1..Len(ast) :
            ast[n].parent # -1 =>
              /\ ast[n].parent < ast[n].lineStart
              /\ IndentOf(lines[ast[n].parent + 1]) < IndentOf(lines[ast[n].lineStart + 1])
       /\ \A h, j \in 1..Len(lines) :
            InBodyOf(lines, h, j) => (h - 1) \in AncestorLines(ast, j - 1)

(***************************************************************************)
(* C27.                                                                    *)
(***************************************************************************)
\* the languages detectLanguage returns for some text of DetectionTexts
DetectedLanguages == {detectLanguage(text) : text \in DetectionTexts}

\* C27: every language of SUPPORTED_LANGUAGES, rust and ruby included, is what
\* detectLanguage returns for some text: whatever a call has just returned, each of
\* the ten languages is returned for some text.
C27_EveryLanguageDetected ==
  DetectionDone => \A lang \in SUPPORTED_LANGUAGES \ {result} : lang \in DetectedLanguages

(***************************************************************************)
(* The streaming endpoint.                                                 *)
(***************************************************************************)
\* the concatenation of the deltas of the first k events
RECURSIVE DeltasOf(_, _)
DeltasOf(evts, k) ==
  IF k = 0 THEN ""
  ELSE DeltasOf(evts, k - 1) \o (IF evts[k].type = "delta" THEN evts[k].delta ELSE "")

DeltaCount(evts) == Cardinality({k \in 1..Len(evts) : evts[k].type = "delta"})

DoneCount(evts) == Cardinality({k \in 1..Len(evts) : evts[k].type = "done"})

\* what has been enqueued so far is a run of deltas in the order of result.code,
\* followed by "done" exactly when the stream is closed
InOrderSoFar ==
  /\ \A k \in 1..Len(events) :
       events[k].type = "delta" =>
         /\ Len(events[k].delta) <= 50
         /\ Len(events[k].delta) > 0
         /\ events[k].fullText = DeltasOf(events, k)
         /\ \A j \in 1..(k - 1) : events[j].type = "delta"
  /\ StartsWith(streamed, DeltasOf(events, Len(events)))
  /\ DoneCount(events) = (IF controller = "closed" THEN 1 ELSE 0)
  /\ controller = "closed" =>
       /\ events[Len(events)].type = "done"
       /\ DeltasOf(events, Len(events)) = streamed
       /\ ~timer

\* C28: result.code is delivered as consecutive "delta" events of at most 50
\* characters, in order, each with fullText equal to the concatenation of the deltas
\* sent so far; after the last delta exactly one "done" event is sent and the stream is
\* closed, so "done" is eventually sent and the concatenation of the deltas is
\* result.code.
C28_Delivery ==
  /\ [](response = "stream" => InOrderSoFar)
  /\ (response = "stream" ~> (controller = "closed" /\ DoneCount(events) = 1))

C28_Witness ==
  /\ response = "stream"
  /\ controller = "closed"
  /\ DeltaCount(events) >= 3
  /\ Len(events[DeltaCount(events)].delta) < 50
  /\ Len(streamed) > 100
  /\ received = Len(events)

\* C29: under any interleaving of the chunk timer with the consumer, once the client
\* has cancelled or the stream has closed no pending sendChunk callback calls
\* controller.enqueue or controller.close again.
C29_NoCallAfterCancel == lateCalls = 0

(***************************************************************************)
(* MultiFileTranslator.                                                    *)
(***************************************************************************)
\* C30: after any sequence of add-file, remove-file and select-file operations the
\* file list is never empty and activeFileId identifies a file of the list, so that
\* a translate of the active file updates a file that is shown.
C30_ActiveFileListed ==
  /\ Len(files) >= 1
  /\ PositionsOf(files, activeFileId) # {}

====
